---------------------------- MODULE Spec2Model ----------------------------
(***************************************************************************)
(* Model of the venue-explorer-api search, ranking and pagination code, of  *)
(* its routers, its monitoring and the registration of its users.          *)
(*                                                                         *)
(* Text values (names, search terms, genres) are sequences of one-letter   *)
(* strings, so that LIKE patterns, lower() and ORDER BY name are computed  *)
(* the way the database computes them.  Each component of the program has  *)
(* its own specification (SpecPagination, SpecArtist, SpecEvents,          *)
(* SpecSearch, SpecNearby, SpecService, SpecEventSearch, SpecUpcoming,     *)
(* SpecUpcomingOps, SpecRoutes, SpecListing, SpecMonitor, SpecRecording,   *)
(* SpecTracking, SpecAccounts); the variables of the other components keep *)
(* their initial value there.                                              *)
(***************************************************************************)
EXTENDS Integers, Sequences, FiniteSets

VARIABLES
    pr,             \* the PaginationResult built last
    artists,        \* table artists: id -> [name, genres]
    artistCall,     \* the last search_by_name_or_genre call: its arguments,
                    \* the number of rows of the table, and its result
    events,         \* table events: id -> [venue_id, event_datetime]
    clock,          \* datetime.utcnow()
    eventCall,      \* the last find_upcoming_by_venue call and its result
    http,           \* the last /search request, what the service was called
                    \* with, and the response sent
    venues,         \* table venues: id -> [lat, capacity]
    nearbyCall,     \* the last /venues/nearby request and its response
    httpNearby,     \* the last /search/nearby request, what the service was
                    \* called with, and the response sent
    svc,            \* the last call of a SearchService method and its result
    event_artists,  \* table event_artists: the pairs <<event_id, artist_id>>
    cities,         \* table cities: id -> [state_province]
    route,          \* the last request for the events of a venue or of an
                    \* artist, or for the venues of a city, the calls its
                    \* handler made on the event repository, and the response
    listing,        \* a client going through the pages of a listing of
                    \* events: the listing and the pages fetched so far
    stats,          \* PerformanceMonitor._stats: key -> PerformanceStats
    lock,           \* PerformanceMonitor._lock: free, or the thread holding it
    threads,        \* the threads that use the PerformanceMonitor: where
                    \* each is in its method, and what it has read
    active_requests,    \* RequestTracker._active_requests
    completed_requests, \* RequestTracker._completed_requests
    inflight,       \* the requests in request_tracking_middleware: where
                    \* each is, and how its handler ended
    users,          \* table users: id -> [email]
    sessions        \* the calls of AuthService.register: where each is in
                    \* the method, and its database session

(* The state of the routers, of the monitoring and of the registration.    *)
monitoring == <<stats, lock, threads>>

tracking == <<active_requests, completed_requests, inflight>>

accounts == <<users, sessions>>

runtime == <<route, listing, monitoring, tracking, accounts>>

vars == <<pr, artists, artistCall, events, clock, eventCall, http, venues,
          nearbyCall, httpNearby, svc, event_artists, cities, runtime>>

(* An optional value: no value, or the value v.                            *)
None == <<>>
Some(v) == <<v>>

-----------------------------------------------------------------------------
(* Bounds of the model.                                                    *)

MaxTotal == 23
MaxPage == 3

(* Query(…, le=50) / Field(…, le=50): the largest page size.               *)
MaxLimit == 50

-----------------------------------------------------------------------------
(* PaginationResult.__init__                                               *)

(* math.ceil(num / den) for den > 0 and num >= 0.  The true division is    *)
(* exact enough for the row counts of a table, so the ceiling is that of   *)
(* the rational quotient.                                                  *)
CeilFloorBug(num, den) == num \div den

Ceil(num, den) ==
    IF num % den = 0 THEN num \div den ELSE (num \div den) + 1

PaginationResultCoerceBug(data, total, page, limit) ==
    LET total_pages == Ceil(total, IF limit > 0 THEN limit ELSE 1)
    IN  [data        |-> data,
         total       |-> total,
         page        |-> page,
         limit       |-> limit,
         total_pages |-> total_pages,
         has_next    |-> page < total_pages,
         has_prev    |-> page > 1]

PaginationResult(data, total, page, limit) ==
    LET total_pages == IF limit > 0 THEN Ceil(total, limit) ELSE 0
    IN  [data        |-> data,
         total       |-> total,
         page        |-> page,
         limit       |-> limit,
         total_pages |-> total_pages,
         has_next    |-> page < total_pages,
         has_prev    |-> page > 1]

NoPagination == PaginationResult(<<>>, 0, 1, 1)

(* A caller builds a PaginationResult from a count, a page and a limit.    *)
NewPaginationResult ==
    /\ \E total \in 0..MaxTotal, page \in 1..MaxPage, limit \in (-1)..MaxLimit :
          pr' = PaginationResult(<<>>, total, page, limit)
    /\ UNCHANGED <<runtime, artists, artistCall, events, clock, eventCall, http,
                   venues, nearbyCall,
                   httpNearby, svc, event_artists, cities>>

-----------------------------------------------------------------------------
(* Text: a string is a sequence of characters.                             *)

Alphabet == {"a", "A", "%"}

MaxNameLen == 2

Strings == UNION {[1..n -> Alphabet] : n \in 1..MaxNameLen}

MaxTermLen == 1

SearchTerms == UNION {[1..n -> Alphabet] : n \in 1..MaxTermLen}

(* The code point of a character: ORDER BY compares text by it (the        *)
(* collation of the database is taken to be the byte order).               *)
Code(c) ==
    CASE c = "%" -> 37
      [] c = "A" -> 65
      [] c = "_" -> 95
      [] c = "a" -> 97
      [] OTHER   -> 98

(* func.lower                                                              *)
LowerChar(c) == IF c = "A" THEN "a" ELSE c

Lower(s) == [i \in DOMAIN s |-> LowerChar(s[i])]

(* text < text, character by character                                     *)
RECURSIVE StrLess(_, _)
StrLess(a, b) ==
    IF a = <<>> THEN b # <<>>
    ELSE IF b = <<>> THEN FALSE
    ELSE IF Code(Head(a)) # Code(Head(b)) THEN Code(Head(a)) < Code(Head(b))
    ELSE StrLess(Tail(a), Tail(b))

(* s LIKE p: in the pattern % stands for any run of characters and _ for   *)
(* any one character; every other character stands for itself.            *)
RECURSIVE Like(_, _)
Like(s, p) ==
    IF p = <<>> THEN s = <<>>
    ELSE IF Head(p) = "%" THEN
        Like(s, Tail(p)) \/ (s # <<>> /\ Like(Tail(s), p))
    ELSE IF Head(p) = "_" THEN
        s # <<>> /\ Like(Tail(s), Tail(p))
    ELSE
        s # <<>> /\ Head(s) = Head(p) /\ Like(Tail(s), Tail(p))

(* s ILIKE p                                                               *)
ILike(s, p) == Like(Lower(s), Lower(p))

(* Whether text t occurs in text s, and whether s begins with t.           *)
StartsWith(s, t) == Len(t) <= Len(s) /\ SubSeq(s, 1, Len(t)) = t

Contains(s, t) ==
    \E i \in 1..(Len(s) + 1) :
        i + Len(t) - 1 <= Len(s) /\ SubSeq(s, i, i + Len(t) - 1) = t

(* The orders of the set S of row ids that ORDER BY allows: before is the  *)
(* strict order of the sort keys, as the set of the pairs <<x, y>> with x  *)
(* sorting before y; rows that tie on every key come in any order.         *)
Orderings(S, before) ==
    {f \in [1..Cardinality(S) -> S] :
        /\ \A i, j \in DOMAIN f : i # j => f[i] # f[j]
        /\ \A i, j \in DOMAIN f : i < j => <<f[j], f[i]>> \notin before}

OffsetLimitNoOffsetBug(rows, off, lim) ==
    SubSeq(rows, 1, IF lim < Len(rows) THEN lim ELSE Len(rows))

(* .offset(off).limit(lim) of an ordered row list                          *)
OffsetLimit(rows, off, lim) ==
    SubSeq(rows, off + 1, IF off + lim < Len(rows) THEN off + lim ELSE Len(rows))

-----------------------------------------------------------------------------
(* ArtistRepository                                                        *)

MaxArtists == 2
MaxArtistLimit == 2

GenreTokens == {<<"a">>, <<"%">>}

ArtistIds == DOMAIN artists

(* create_artist: the new row gets the next id.                            *)
create_artist(name, genres) ==
    /\ Len(artists) < MaxArtists
    /\ artists' = Append(artists, [name |-> name, genres |-> genres])
    /\ UNCHANGED <<runtime, pr, artistCall, events, clock, eventCall, http, venues,
                   nearbyCall,
                   httpNearby, svc, event_artists, cities>>

search_pattern(search_term) == <<"%">> \o search_term \o <<"%">>

starts_with_pattern(search_term) == search_term \o <<"%">>

(* genres && array[search_term]                                            *)
GenreOverlap(genres, search_term) == search_term \in genres

(* The ranking expression, read as the SQL CASE its arguments spell: the   *)
(* first condition that holds gives the rank.  The patterns are built from *)
(* the search term as it is, so a % or _ of the term is a wildcard.        *)
ranking_case(a, search_term) ==
    IF Lower(a.name) = Lower(search_term) THEN 1
    ELSE IF Like(Lower(a.name), Lower(starts_with_pattern(search_term))) THEN 2
    ELSE IF Like(Lower(a.name), Lower(search_pattern(search_term))) THEN 3
    ELSE IF GenreOverlap(a.genres, search_term) THEN 4
    ELSE 5

(* The filter of the query.                                                *)
ArtistMatches(a, search_term) ==
    \/ ILike(a.name, search_pattern(search_term))
    \/ GenreOverlap(a.genres, search_term)

(* ORDER BY ranking_case, Artist.name                                      *)
ArtistBefore(search_term, x, y) ==
    LET rx == ranking_case(artists[x], search_term)
        ry == ranking_case(artists[y], search_term)
    IN  \/ rx < ry
        \/ rx = ry /\ StrLess(artists[x].name, artists[y].name)

(* The row lists search_by_name_or_genre may return.                       *)
search_by_name_or_genre(search_term, limit) ==
    LET matching == {id \in ArtistIds : ArtistMatches(artists[id], search_term)}
        before == {xy \in matching \X matching :
                       ArtistBefore(search_term, xy[1], xy[2])}
    IN  {OffsetLimit(rows, 0, limit) : rows \in Orderings(matching, before)}

SearchArtists ==
    /\ \E search_term \in SearchTerms, limit \in 1..MaxArtistLimit :
          \E result \in search_by_name_or_genre(search_term, limit) :
              artistCall' = Some([search_term |-> search_term,
                                  limit       |-> limit,
                                  rows        |-> Len(artists),
                                  result      |-> result])
    /\ UNCHANGED <<runtime, pr, artists, events, clock, eventCall, http, venues,
                   nearbyCall,
                   httpNearby, svc, event_artists, cities>>

CreateArtist ==
    \E name \in Strings, genres \in SUBSET GenreTokens :
        create_artist(name, genres)

-----------------------------------------------------------------------------
(* EventRepository                                                         *)

MaxEvents == 2
MaxTime == 1
MaxEventLimit == 2

VenueIds == {1, 2}

EventIds == DOMAIN events

(* BaseRepository.create for an Event: the new row gets the next id.       *)
CreateEvent ==
    /\ Len(events) < MaxEvents
    /\ \E venue_id \in VenueIds, event_datetime \in 0..MaxTime :
          events' = Append(events, [venue_id       |-> venue_id,
                                    event_datetime |-> event_datetime])
    /\ UNCHANGED <<runtime, pr, artists, artistCall, clock, eventCall, http, venues,
                   nearbyCall,
                   httpNearby, svc, event_artists, cities>>

(* Time passes: datetime.utcnow() is later at the next call.               *)
Tick ==
    /\ clock < MaxTime
    /\ clock' = clock + 1
    /\ UNCHANGED <<runtime, pr, artists, artistCall, events, eventCall, http, venues,
                   nearbyCall,
                   httpNearby, svc, event_artists, cities>>

(* order_by(Event.event_datetime.asc())                                    *)
EventBefore(x, y) == events[x].event_datetime < events[y].event_datetime

find_upcoming_by_venue_past_bug(venue_id, page, limit) ==
    LET matching == {id \in EventIds : events[id].venue_id = venue_id}
        total == Cardinality(matching)
        before == {xy \in matching \X matching : EventBefore(xy[1], xy[2])}
    IN  {PaginationResult(OffsetLimit(rows, (page - 1) * limit, limit),
                          total, page, limit) :
            rows \in Orderings(matching, before)}

(* The results find_upcoming_by_venue may return.                          *)
find_upcoming_by_venue(venue_id, page, limit) ==
    LET matching == {id \in EventIds :
                        /\ events[id].venue_id = venue_id
                        /\ events[id].event_datetime >= clock}
        total == Cardinality(matching)
        before == {xy \in matching \X matching : EventBefore(xy[1], xy[2])}
    IN  {PaginationResult(OffsetLimit(rows, (page - 1) * limit, limit),
                          total, page, limit) :
            rows \in Orderings(matching, before)}

FindUpcomingByVenue ==
    /\ \E venue_id \in VenueIds, page \in 1..MaxPage, limit \in 1..MaxEventLimit :
          \E result \in find_upcoming_by_venue(venue_id, page, limit) :
              eventCall' = Some([method   |-> "find_upcoming_by_venue",
                                 venue_id |-> venue_id,
                                 rows     |-> Len(events),
                                 now      |-> clock,
                                 result   |-> result])
    /\ UNCHANGED <<runtime, pr, artists, artistCall, events, clock, http, venues,
                   nearbyCall,
                   httpNearby, svc, event_artists, cities>>

-----------------------------------------------------------------------------
(* GET /search: the router, SearchParams, SearchService.search and the     *)
(* exception handlers of main.py.                                          *)

(* A date string is a sequence of parts: a date and time in ISO format,    *)
(* the suffix Z, the offset +00:00, or other text.                         *)
IsoDateTime == "2025-06-01T20:00:00"

DateStrings == {<<>>, <<IsoDateTime>>, <<IsoDateTime, "Z">>, <<"soon">>}

(* s.replace('Z', '+00:00')                                                *)
ReplaceZ(s) == [i \in DOMAIN s |-> IF s[i] = "Z" THEN "+00:00" ELSE s[i]]

(* datetime.fromisoformat(s): the datetime, or None for a ValueError.      *)
fromisoformat(s) ==
    IF s = <<IsoDateTime>> THEN Some([datetime |-> IsoDateTime, utc |-> FALSE])
    ELSE IF s = <<IsoDateTime, "+00:00">>
        THEN Some([datetime |-> IsoDateTime, utc |-> TRUE])
    ELSE None

(* The requests a client sends.                                            *)
Requests ==
    [q            : {<<>>, <<"a">>},
     page         : {0, 1, 2},
     limit        : {0, 1, MaxLimit, MaxLimit + 1},
     capacity_min : {None, Some(10), Some(50)},
     capacity_max : {None, Some(10)},
     start_date   : DateStrings,
     end_date     : {<<>>, <<"soon">>}]

(* Whether an optional number is given and is less than n.                 *)
GivenBelow(opt, n) == opt # None /\ opt[1] < n

QueryErrorsNoMaxBug(req) ==
    {f \in {"q", "page", "limit", "capacity_min", "capacity_max"} :
        \/ f = "q" /\ Len(req.q) < 1
        \/ f = "page" /\ req.page < 1
        \/ f = "limit" /\ req.limit < 1
        \/ f = "capacity_min" /\ GivenBelow(req.capacity_min, 0)
        \/ f = "capacity_max" /\ GivenBelow(req.capacity_max, 0)}

(* The parameters that fail the Query(...) constraints of the endpoint.    *)
QueryErrors(req) ==
    {f \in {"q", "page", "limit", "capacity_min", "capacity_max"} :
        \/ f = "q" /\ Len(req.q) < 1
        \/ f = "page" /\ req.page < 1
        \/ f = "limit" /\ (req.limit < 1 \/ req.limit > MaxLimit)
        \/ f = "capacity_min" /\ GivenBelow(req.capacity_min, 0)
        \/ f = "capacity_max" /\ GivenBelow(req.capacity_max, 0)}

(* The fields that fail the Field(...) constraints of SearchParams.        *)
SearchParamsErrors(kw) ==
    {f \in {"q", "page", "limit", "capacity_min", "capacity_max"} :
        \/ f = "q" /\ Len(kw.q) < 1
        \/ f = "page" /\ kw.page < 1
        \/ f = "limit" /\ (kw.limit < 1 \/ kw.limit > MaxLimit)
        \/ f = "capacity_min" /\ GivenBelow(kw.capacity_min, 0)
        \/ f = "capacity_max" /\ GivenBelow(kw.capacity_max, 0)}

(* SearchResponse: the fields without a default are required, a keyword    *)
(* that is no field is ignored; None stands for a ValidationError.         *)
SearchResponseRequired == {"query", "total", "results", "pagination"}

SearchResponse(kw) ==
    IF SearchResponseRequired \subseteq DOMAIN kw
    THEN Some([f \in SearchResponseRequired \cup {"aggregations"} |->
                  IF f \in DOMAIN kw THEN kw[f] ELSE <<>>])
    ELSE None

(* SearchService.search                                                    *)
search(params) ==
    SearchResponse([results      |-> <<>>,
                    total        |-> 0,
                    page         |-> params.page,
                    limit        |-> params.limit,
                    aggregations |-> <<>>])

(* The response of FastAPI to a request that fails the Query constraints,  *)
(* with the parameters at fault.                                           *)
RequestValidationResponse(fields) ==
    [status |-> 422, code |-> "REQUEST_VALIDATION_ERROR", fields |-> fields,
     body |-> None]

(* general_exception_handler                                               *)
general_exception_handler ==
    [status |-> 500, code |-> "INTERNAL_SERVER_ERROR", fields |-> {},
     body |-> None]

OkResponse(body) ==
    [status |-> 200, code |-> "OK", fields |-> {}, body |-> Some(body)]

(* The endpoint: what the service was called with (params), what it        *)
(* returned (result) and the response sent.                                *)
search_endpoint(req) ==
    LET start_raises == req.start_date # <<>>
                            /\ fromisoformat(ReplaceZ(req.start_date)) = None
        end_raises   == req.end_date # <<>>
                            /\ fromisoformat(ReplaceZ(req.end_date)) = None
        kw == [q            |-> req.q,
               page         |-> req.page,
               limit        |-> req.limit,
               capacity_min |-> req.capacity_min,
               capacity_max |-> req.capacity_max,
               start_date   |-> IF req.start_date # <<>>
                                  THEN fromisoformat(ReplaceZ(req.start_date))
                                  ELSE None,
               end_date     |-> IF req.end_date # <<>>
                                  THEN fromisoformat(ReplaceZ(req.end_date))
                                  ELSE None]
        result == search(kw)
    IN  IF QueryErrors(req) # {} THEN
            [request |-> req, params |-> None, result |-> None,
             response |-> RequestValidationResponse(QueryErrors(req))]
        ELSE IF start_raises \/ end_raises \/ SearchParamsErrors(kw) # {} THEN
            [request |-> req, params |-> None, result |-> None,
             response |-> general_exception_handler]
        ELSE IF result = None THEN
            [request |-> req, params |-> Some(kw), result |-> None,
             response |-> general_exception_handler]
        ELSE
            [request |-> req, params |-> Some(kw), result |-> result,
             response |-> OkResponse(result[1])]

(* http and httpNearby hold the last request the search router handled:   *)
(* the one of them that is not of that request is None.                    *)
SearchRequest ==
    /\ \E req \in Requests : http' = Some(search_endpoint(req))
    /\ httpNearby' = None
    /\ UNCHANGED <<runtime, pr, artists, artistCall, events, clock, eventCall, venues,
                   nearbyCall, svc, event_artists, cities>>

-----------------------------------------------------------------------------
(* GET /venues/nearby and VenueRepository.find_nearby                      *)
(*                                                                         *)
(* The venues and the centre of a search lie on one meridian; a latitude   *)
(* is a number of tenths of a degree.                                      *)

MaxVenues == 2
MaxLatTenths == 3
MaxNearbyLimit == 2

(* Query(..., le=100): the largest radius, in kilometres.                  *)
MaxRadiusKm == 100

(* Query(..., ge=-90, le=90), in tenths of a degree.                       *)
MaxLatitudeTenths == 900

VenueRowIds == DOMAIN venues

(* BaseRepository.create for a Venue: the new row gets the next id.        *)
CreateVenue ==
    /\ Len(venues) < MaxVenues
    /\ \E lat \in 0..MaxLatTenths, capacity \in {None, Some(100), Some(500)} :
          venues' = Append(venues, [lat |-> lat, capacity |-> capacity])
    /\ UNCHANGED <<runtime, pr, artists, artistCall, events, clock, eventCall, http,
                   nearbyCall,
                   httpNearby, svc, event_artists, cities>>

(* The great-circle distance of two points of a meridian, in metres: a     *)
(* tenth of a degree of a sphere of radius 6371 km is 11119 m.             *)
MetresPerTenth == 11119

DistanceM(latA, latB) ==
    (IF latA >= latB THEN latA - latB ELSE latB - latA) * MetresPerTenth

(* The requests a client sends.                                            *)
NearbyRequests ==
    [lat          : {0, 2, MaxLatitudeTenths + 10},
     radius       : {10, 25, MaxRadiusKm + 50},
     limit        : 1..MaxNearbyLimit,
     min_capacity : {None, Some(200)}]

(* The parameters that fail the Query(...) constraints of the endpoint.    *)
NearbyQueryErrors(req) ==
    {f \in {"lat", "radius", "limit", "min_capacity"} :
        \/ f = "lat" /\ (req.lat < -MaxLatitudeTenths \/ req.lat > MaxLatitudeTenths)
        \/ f = "radius" /\ (req.radius <= 0 \/ req.radius > MaxRadiusKm)
        \/ f = "limit" /\ (req.limit < 1 \/ req.limit > MaxLimit)
        \/ f = "min_capacity" /\ GivenBelow(req.min_capacity, 0)}

(* The row lists find_nearby may return: the query has no ORDER BY and no  *)
(* condition on the point or the radius, so they are any limit rows of the *)
(* venues of the capacity asked for, in any order.                         *)
find_nearby(point, radius_km, limit, min_capacity) ==
    LET rows == {id \in VenueRowIds :
                    min_capacity # None =>
                        /\ venues[id].capacity # None
                        /\ venues[id].capacity[1] >= min_capacity[1]}
        n == IF limit < Cardinality(rows) THEN limit ELSE Cardinality(rows)
    IN  {f \in [1..n -> rows] : \A i, j \in 1..n : i # j => f[i] # f[j]}

(* The ORM Venue has no attribute distance_km, so the response leaves the  *)
(* distance unset.                                                         *)
VenueResponse(id) == [id |-> id, distance_km |-> None]

GetNearbyVenues ==
    /\ \E req \in NearbyRequests :
          IF NearbyQueryErrors(req) # {}
          THEN nearbyCall' = Some([request |-> req,
                                   rows    |-> Len(venues),
                                   status  |-> 422,
                                   items   |-> <<>>])
          ELSE \E found \in find_nearby(req.lat, req.radius, req.limit,
                                        req.min_capacity) :
                  nearbyCall' = Some([request |-> req,
                                      rows    |-> Len(venues),
                                      status  |-> 200,
                                      items   |-> [i \in DOMAIN found |->
                                                     VenueResponse(found[i])]])
    /\ UNCHANGED <<runtime, pr, artists, artistCall, events, clock, eventCall, http,
                   venues,
                   httpNearby, svc, event_artists, cities>>

-----------------------------------------------------------------------------
(* GET /search/nearby: the router, NearbySearchParams and                  *)
(* SearchService.search_nearby.  Latitude, longitude and radius are whole  *)
(* numbers of degrees and of kilometres.                                   *)

(* Query(..., ge=-90, le=90) and Query(..., ge=-180, le=180)               *)
MaxLatitude == 90
MaxLongitude == 180

(* Query("all", pattern="^(venue|artist|event|all)$")                      *)
ContentTypes == {"venue", "artist", "event", "all"}

(* The requests a client sends; q is absent, empty or a term.              *)
NearbySearchRequests ==
    [lat    : {-(MaxLatitude + 1), 0, MaxLatitude},
     lon    : {-(MaxLongitude + 1), 0, MaxLongitude},
     radius : {0, 10, MaxRadiusKm, MaxRadiusKm + 50},
     q      : {None, Some(<<>>), Some(<<"a">>)},
     type   : {"all", "album"},
     limit  : {0, 20, MaxLimit + 1}]

NearbySearchQueryErrorsNoRadiusBug(req) ==
    {f \in {"lat", "lon", "limit", "type"} :
        \/ f = "lat" /\ (req.lat < -MaxLatitude \/ req.lat > MaxLatitude)
        \/ f = "lon" /\ (req.lon < -MaxLongitude \/ req.lon > MaxLongitude)
        \/ f = "type" /\ req.type \notin ContentTypes
        \/ f = "limit" /\ (req.limit < 1 \/ req.limit > MaxLimit)}

(* The parameters that fail the Query(...) constraints of the endpoint.    *)
NearbySearchQueryErrors(req) ==
    {f \in {"lat", "lon", "radius", "limit", "type"} :
        \/ f = "lat" /\ (req.lat < -MaxLatitude \/ req.lat > MaxLatitude)
        \/ f = "lon" /\ (req.lon < -MaxLongitude \/ req.lon > MaxLongitude)
        \/ f = "radius" /\ (req.radius <= 0 \/ req.radius > MaxRadiusKm)
        \/ f = "type" /\ req.type \notin ContentTypes
        \/ f = "limit" /\ (req.limit < 1 \/ req.limit > MaxLimit)}

(* The fields that fail the Field(...) constraints of NearbySearchParams.  *)
NearbySearchParamsErrors(kw) ==
    {f \in {"lat", "lon", "radius", "limit"} :
        \/ f = "lat" /\ (kw.lat < -MaxLatitude \/ kw.lat > MaxLatitude)
        \/ f = "lon" /\ (kw.lon < -MaxLongitude \/ kw.lon > MaxLongitude)
        \/ f = "radius" /\ (kw.radius <= 0 \/ kw.radius > MaxRadiusKm)
        \/ f = "limit" /\ (kw.limit < 1 \/ kw.limit > MaxLimit)}

(* SearchService.search_nearby                                             *)
search_nearby(params, query, content_type) ==
    SearchResponse([results      |-> <<>>,
                    total        |-> 0,
                    page         |-> 1,
                    limit        |-> params.limit,
                    aggregations |-> <<>>])

(* The endpoint: what the service was called with (params), what it        *)
(* returned (result) and the response sent.                                *)
search_nearby_endpoint(req) ==
    LET kw == [lat    |-> req.lat,
               lon    |-> req.lon,
               radius |-> req.radius,
               limit  |-> req.limit]
        called == [params       |-> kw,
                   query        |-> req.q,
                   content_type |-> req.type]
        result == search_nearby(kw, req.q, req.type)
    IN  IF NearbySearchQueryErrors(req) # {} THEN
            [request |-> req, params |-> None, result |-> None,
             response |-> RequestValidationResponse(NearbySearchQueryErrors(req))]
        ELSE IF NearbySearchParamsErrors(kw) # {} THEN
            [request |-> req, params |-> None, result |-> None,
             response |-> general_exception_handler]
        ELSE IF result = None THEN
            [request |-> req, params |-> Some(called), result |-> None,
             response |-> general_exception_handler]
        ELSE
            [request |-> req, params |-> Some(called), result |-> result,
             response |-> OkResponse(result[1])]

SearchNearbyRequest ==
    /\ \E req \in NearbySearchRequests :
          httpNearby' = Some(search_nearby_endpoint(req))
    /\ http' = None
    /\ UNCHANGED <<runtime, pr, artists, artistCall, events, clock, eventCall, venues,
                   nearbyCall, svc, event_artists, cities>>

-----------------------------------------------------------------------------
(* SearchService, called on a store that holds rows.                       *)

(* The tables the session of the service reads and writes.                 *)
Db == [artists       |-> artists,
       events        |-> events,
       venues        |-> venues,
       event_artists |-> event_artists]

DbAfterServiceCacheBug(db) ==
    [db EXCEPT !.venues = Append(@, [lat |-> 0, capacity |-> None])]

(* The tables after a method of SearchService has returned or raised:      *)
(* neither method uses self.db, so no row is added, changed or deleted.    *)
DbAfterService(db) == db

(* The SearchParams and NearbySearchParams the service is called with.     *)
ServiceParams ==
    [q            : {<<"a">>, <<"%">>},
     page         : 1..2,
     limit        : {1, MaxLimit},
     capacity_min : {None},
     capacity_max : {None},
     start_date   : {None},
     end_date     : {None}]

ServiceNearbyParams ==
    [lat : {0}, lon : {0}, radius : {10, MaxRadiusKm}, limit : {1, 20}]

(* A call of SearchService.search: rows is the number of events of the     *)
(* store at the call, result is None when the method raised.               *)
ServiceSearch ==
    /\ \E params \in ServiceParams :
          svc' = Some([method |-> "search",
                       params |-> params,
                       query  |-> Some(params.q),
                       rows   |-> Len(events),
                       result |-> search(params)])
    /\ artists' = DbAfterService(Db).artists
    /\ events' = DbAfterService(Db).events
    /\ venues' = DbAfterService(Db).venues
    /\ event_artists' = DbAfterService(Db).event_artists
    /\ UNCHANGED <<runtime, pr, artistCall, clock, eventCall, http, nearbyCall,
                   httpNearby, cities>>

(* A call of SearchService.search_nearby.                                  *)
ServiceSearchNearby ==
    /\ \E params \in ServiceNearbyParams, query \in {None, Some(<<"a">>)} :
          svc' = Some([method |-> "search_nearby",
                       params |-> params,
                       query  |-> query,
                       rows   |-> Len(events),
                       result |-> search_nearby(params, query, "all")])
    /\ artists' = DbAfterService(Db).artists
    /\ events' = DbAfterService(Db).events
    /\ venues' = DbAfterService(Db).venues
    /\ event_artists' = DbAfterService(Db).event_artists
    /\ UNCHANGED <<runtime, pr, artistCall, clock, eventCall, http, nearbyCall,
                   httpNearby, cities>>

(* The artists and venues the store holds when the service is called:      *)
(* rows that create_artist and BaseRepository.create have added.           *)
StoredArtists ==
    {<<>>,
     <<[name |-> <<"a">>, genres |-> {}]>>,
     <<[name |-> <<"a">>, genres |-> {}],
       [name |-> <<"A", "a">>, genres |-> {<<"a">>}]>>}

StoredVenues == {<<>>, <<[lat |-> 0, capacity |-> None]>>}

-----------------------------------------------------------------------------
(* EventRepository.search_events                                           *)

(* The most events of a store that is searched.                            *)
MaxStoredEvents == 2

(* The events and artists the store holds when events are searched; a     *)
(* description may be NULL.                                                *)
TextEventRows ==
    [venue_id       : {1},
     event_datetime : {0, 1},
     title          : {<<"a">>, <<"%">>},
     description    : {None, Some(<<"A">>)}]

StoredTextEvents == UNION {[1..n -> TextEventRows] : n \in 0..MaxStoredEvents}

NamedArtists ==
    <<[name |-> <<"a">>, genres |-> {}], [name |-> <<"%">>, genres |-> {}]>>

(* Query.all() of a query for one entity: each entity once, in the order   *)
(* of its first row.                                                       *)
RECURSIVE UniqueList(_)
UniqueList(rows) ==
    IF rows = <<>> THEN <<>>
    ELSE LET front == UniqueList(SubSeq(rows, 1, Len(rows) - 1))
             last  == rows[Len(rows)]
         IN  IF \E i \in DOMAIN front : front[i] = last
             THEN front
             ELSE Append(front, last)

(* The rows of events JOIN event_artists JOIN artists, as pairs of an      *)
(* event id and an artist id: an event without an artist has no row.       *)
EventArtistJoin ==
    {ea \in event_artists : ea[1] \in EventIds /\ ea[2] \in ArtistIds}

(* The filter of search_events on a row of the join; a NULL description    *)
(* matches nothing.                                                        *)
EventRowMatches(ea, search_term) ==
    \/ ILike(events[ea[1]].title, search_pattern(search_term))
    \/ /\ events[ea[1]].description # None
       /\ ILike(events[ea[1]].description[1], search_pattern(search_term))
    \/ ILike(artists[ea[2]].name, search_pattern(search_term))

(* The results search_events may return: the count and the offset and      *)
(* limit are those of the rows of the join, ordered by event_datetime      *)
(* alone.                                                                  *)
search_events(search_term, page, limit) ==
    LET matching == {ea \in EventArtistJoin : EventRowMatches(ea, search_term)}
        total == Cardinality(matching)
        before == {xy \in matching \X matching :
                       EventBefore(xy[1][1], xy[2][1])}
    IN  {PaginationResult(
             UniqueList([i \in DOMAIN OffsetLimit(rows, (page - 1) * limit, limit)
                            |-> OffsetLimit(rows, (page - 1) * limit, limit)[i][1]]),
             total, page, limit) :
            rows \in Orderings(matching, before)}

SearchEvents ==
    /\ \E search_term \in {<<"a">>, <<"%">>}, page \in 1..2,
          limit \in {1, 2, MaxLimit} :
          \E result \in search_events(search_term, page, limit) :
              eventCall' = Some([method      |-> "search_events",
                                 search_term |-> search_term,
                                 result      |-> result])
    /\ UNCHANGED <<runtime, pr, artists, artistCall, events, clock, http, venues,
                   nearbyCall, httpNearby, svc, event_artists, cities>>

-----------------------------------------------------------------------------
(* EventRepository.find_upcoming_events                                    *)

(* The store the upcoming events are found in: two venues, each in its     *)
(* city, two artists, one of them with a genre, and up to two events.      *)
CityRows == [state_province : {<<"W", "A">>, <<"O", "R">>}]

CityVenues ==
    <<[lat |-> 0, capacity |-> None, city_id |-> 1],
      [lat |-> 0, capacity |-> None, city_id |-> 2]>>

GenreArtists ==
    <<[name |-> <<"a">>, genres |-> {<<"a">>}],
      [name |-> <<"A">>, genres |-> {<<"a">>, <<"%">>}]>>

DatedEventRows == [venue_id : VenueIds, event_datetime : {0, 1}]

StoredDatedEvents ==
    UNION {[1..n -> DatedEventRows] : n \in 0..MaxStoredEvents}

(* if city_id: / if state_province: / if genre: the filter is applied when *)
(* the value is given and is not 0 or the empty string.                    *)
TruthyInt(opt) == opt # None /\ opt[1] # 0

TruthyStr(opt) == opt # None /\ opt[1] # <<>>

(* The rows of the query: of events JOIN venues, and JOIN cities for a     *)
(* state_province, and JOIN event_artists JOIN artists for a genre; a row  *)
(* is an event id and an artist id (0 without the last join).              *)
UpcomingRows(city_id, state_province, genre) ==
    {ea \in EventIds \X (0..Len(artists)) :
        /\ events[ea[1]].venue_id \in DOMAIN venues
        /\ events[ea[1]].event_datetime >= clock
        /\ TruthyInt(city_id) =>
               venues[events[ea[1]].venue_id].city_id = city_id[1]
        /\ TruthyStr(state_province) =>
               /\ venues[events[ea[1]].venue_id].city_id \in DOMAIN cities
               /\ cities[venues[events[ea[1]].venue_id].city_id].state_province
                      = state_province[1]
        /\ IF TruthyStr(genre)
           THEN /\ ea[2] # 0
                /\ ea \in event_artists
                /\ GenreOverlap(artists[ea[2]].genres, genre[1])
           ELSE ea[2] = 0}

(* The results find_upcoming_events may return.                            *)
find_upcoming_events(page, limit, city_id, state_province, genre) ==
    LET matching == UpcomingRows(city_id, state_province, genre)
        total == Cardinality(matching)
        before == {xy \in matching \X matching :
                       EventBefore(xy[1][1], xy[2][1])}
    IN  {PaginationResult(
             UniqueList([i \in DOMAIN OffsetLimit(rows, (page - 1) * limit, limit)
                            |-> OffsetLimit(rows, (page - 1) * limit, limit)[i][1]]),
             total, page, limit) :
            rows \in Orderings(matching, before)}

FindUpcomingEvents ==
    /\ \E limit \in {1, MaxLimit},
          city_id \in {None, Some(0), Some(1)},
          state_province \in {None, Some(<<>>), Some(<<"W", "A">>)},
          genre \in {None, Some(<<"%">>)} :
          \E result \in find_upcoming_events(1, limit, city_id,
                                             state_province, genre) :
              eventCall' = Some([method         |-> "find_upcoming_events",
                                 city_id        |-> city_id,
                                 state_province |-> state_province,
                                 genre          |-> genre,
                                 result         |-> result])
    /\ UNCHANGED <<runtime, pr, artists, artistCall, events, clock, http, venues,
                   nearbyCall, httpNearby, svc, event_artists, cities>>

-----------------------------------------------------------------------------
(* The upcoming events of an artist: EventRepository.find_upcoming_by_     *)
(* artist and ArtistRepository.find_upcoming_events.  event_artists has    *)
(* the primary key (event_id, artist_id), so the join with it gives one    *)
(* row for each event of the artist.                                       *)

(* The results find_upcoming_by_artist may return.                         *)
find_upcoming_by_artist(artist_id, page, limit) ==
    LET matching == {id \in EventIds :
                        /\ <<id, artist_id>> \in event_artists
                        /\ events[id].event_datetime >= clock}
        total == Cardinality(matching)
        before == {xy \in matching \X matching : EventBefore(xy[1], xy[2])}
    IN  {PaginationResult(OffsetLimit(rows, (page - 1) * limit, limit),
                          total, page, limit) :
            rows \in Orderings(matching, before)}

(* The results ArtistRepository.find_upcoming_events may return; a date    *)
(* that is given is a datetime, which is never false.                      *)
artist_find_upcoming_events(artist_id, page, limit, start_date, end_date) ==
    LET matching == {id \in EventIds :
                        /\ <<id, artist_id>> \in event_artists
                        /\ events[id].event_datetime >= clock
                        /\ start_date # None =>
                               events[id].event_datetime >= start_date[1]
                        /\ end_date # None =>
                               events[id].event_datetime <= end_date[1]}
        total == Cardinality(matching)
        before == {xy \in matching \X matching : EventBefore(xy[1], xy[2])}
    IN  {PaginationResult(OffsetLimit(rows, (page - 1) * limit, limit),
                          total, page, limit) :
            rows \in Orderings(matching, before)}

FindUpcomingByArtist ==
    /\ \E artist_id \in 1..2, page \in 1..MaxPage, limit \in 1..MaxEventLimit :
          \E result \in find_upcoming_by_artist(artist_id, page, limit) :
              eventCall' = Some([method    |-> "find_upcoming_by_artist",
                                 artist_id |-> artist_id,
                                 rows      |-> Len(events),
                                 now       |-> clock,
                                 result    |-> result])
    /\ UNCHANGED <<runtime, pr, artists, artistCall, events, clock, http, venues,
                   nearbyCall, httpNearby, svc, event_artists, cities>>

ArtistFindUpcomingEvents ==
    /\ \E artist_id \in 1..2, start_date \in {None, Some(0), Some(1)},
          end_date \in {None, Some(0), Some(1)} :
          \E result \in artist_find_upcoming_events(artist_id, 1, MaxEventLimit,
                                                    start_date, end_date) :
              eventCall' = Some([method     |-> "find_upcoming_events",
                                 artist_id  |-> artist_id,
                                 start_date |-> start_date,
                                 end_date   |-> end_date,
                                 rows       |-> Len(events),
                                 now        |-> clock,
                                 result     |-> result])
    /\ UNCHANGED <<runtime, pr, artists, artistCall, events, clock, http, venues,
                   nearbyCall, httpNearby, svc, event_artists, cities>>

-----------------------------------------------------------------------------
(* The routers of the events of a venue, of the events of an artist and of *)
(* the venues of a city, with the error handlers of main.py.               *)

(* The variables of the tables and of the calls above.                     *)
catalogue == <<pr, artists, artistCall, events, clock, eventCall, http,
               venues, nearbyCall, httpNearby, svc, event_artists, cities>>

(* str.upper(), on the letters of the entity types.                        *)
UpperChar(c) ==
    CASE c = "a" -> "A"
      [] c = "c" -> "C"
      [] c = "e" -> "E"
      [] c = "i" -> "I"
      [] c = "n" -> "N"
      [] c = "r" -> "R"
      [] c = "s" -> "S"
      [] c = "t" -> "T"
      [] c = "u" -> "U"
      [] c = "y" -> "Y"
      [] OTHER   -> c

Upper(s) == [i \in DOMAIN s |-> UpperChar(s[i])]

VenueType == <<"V", "e", "n", "u", "e">>
ArtistType == <<"A", "r", "t", "i", "s", "t">>
CityType == <<"C", "i", "t", "y">>

(* ErrorHandler.not_found: the AppError raised.  The message is the text   *)
(* "<entity_type> with ID <entity_id> not found", kept as its two parts.   *)
not_found(entity_type, entity_id) ==
    [message     |-> [entity_type |-> entity_type, entity_id |-> entity_id],
     error_code  |-> Upper(entity_type)
                        \o <<"_", "N", "O", "T", "_", "F", "O", "U", "N", "D">>,
     status_code |-> 404,
     details     |-> [entity_type |-> entity_type, entity_id |-> entity_id]]

(* app_error_handler: the response to an AppError (the request id is left  *)
(* out).                                                                   *)
app_error_handler(exc) ==
    [status  |-> exc.status_code,
     code    |-> exc.error_code,
     message |-> exc.message,
     details |-> exc.details,
     fields  |-> {},
     body    |-> None]

(* Path(..., gt=0) and PaginationParams: the parameters of a request that  *)
(* fail their constraints.                                                 *)
PathErrors(id_name, id, page, limit) ==
    {f \in {id_name, "page", "limit"} :
        \/ f = id_name /\ id <= 0
        \/ f = "page" /\ page < 1
        \/ f = "limit" /\ (limit < 1 \/ limit > MaxLimit)}

(* find_by_id of the repositories: .filter(id == id).first()               *)
venue_find_by_id(venue_id) ==
    IF venue_id \in DOMAIN venues THEN Some(venue_id) ELSE None

artist_find_by_id(artist_id) ==
    IF artist_id \in DOMAIN artists THEN Some(artist_id) ELSE None

city_find_by_id(id) ==
    IF id \in DOMAIN cities THEN Some(id) ELSE None

(* The EventRepository the routers import, app.repositories.               *)
(* event_repository: its methods, and the empty result each of its find    *)
(* methods returns.                                                        *)
RouterEventRepositoryMethods ==
    {"count_upcoming_by_venue", "find_upcoming_by_venue", "find_by_venue",
     "find_upcoming_by_artist"}

RouterEventRepositoryResult ==
    [data |-> <<>>, total_pages |-> 0, has_next |-> FALSE,
     has_prev |-> FALSE, total |-> 0]

(* PaginatedResponse(data=result.data, pagination={...}, total=...)        *)
PaginatedResponse(result, page, limit) ==
    [data       |-> result.data,
     pagination |-> [page        |-> page,
                     limit       |-> limit,
                     total_pages |-> result.total_pages,
                     has_next    |-> result.has_next,
                     has_prev    |-> result.has_prev],
     total      |-> result.total]

(* The part of a handler after the entity was found: method is the method  *)
(* of the event repository it calls (a method the repository lacks is an   *)
(* AttributeError).  It gives the calls made and the response.             *)
events_of_entity(method, page, limit) ==
    IF method \in RouterEventRepositoryMethods
    THEN [event_queries |-> <<method>>,
          response      |-> OkResponse(PaginatedResponse(
                                RouterEventRepositoryResult, page, limit))]
    ELSE [event_queries |-> <<>>, response |-> general_exception_handler]

(* get_venue_events                                                        *)
get_venue_events_no_check_bug(venue_id, page, limit, upcoming_only) ==
    IF PathErrors("venue_id", venue_id, page, limit) # {}
    THEN [event_queries |-> <<>>,
          response |-> RequestValidationResponse(
                           PathErrors("venue_id", venue_id, page, limit))]
    ELSE events_of_entity(IF upcoming_only THEN "find_upcoming_by_venue"
                                           ELSE "find_by_venue", page, limit)

get_venue_events(venue_id, page, limit, upcoming_only) ==
    IF PathErrors("venue_id", venue_id, page, limit) # {}
    THEN [event_queries |-> <<>>,
          response |-> RequestValidationResponse(
                           PathErrors("venue_id", venue_id, page, limit))]
    ELSE IF venue_find_by_id(venue_id) = None
    THEN [event_queries |-> <<>>,
          response |-> app_error_handler(not_found(VenueType, venue_id))]
    ELSE events_of_entity(IF upcoming_only THEN "find_upcoming_by_venue"
                                           ELSE "find_by_venue", page, limit)

(* get_artist_events                                                       *)
get_artist_events(artist_id, page, limit, upcoming_only) ==
    IF PathErrors("artist_id", artist_id, page, limit) # {}
    THEN [event_queries |-> <<>>,
          response |-> RequestValidationResponse(
                           PathErrors("artist_id", artist_id, page, limit))]
    ELSE IF artist_find_by_id(artist_id) = None
    THEN [event_queries |-> <<>>,
          response |-> app_error_handler(not_found(ArtistType, artist_id))]
    ELSE events_of_entity(IF upcoming_only THEN "find_upcoming_by_artist"
                                           ELSE "find_by_artist", page, limit)

(* The requests a client sends for an id: ids the table holds and ids it   *)
(* does not, pages and limits inside and outside their range.              *)
RouteIds == 0..3
RoutePages == {0, 1, 2}
RouteLimits == {10, MaxLimit + 1}

GetVenueEvents ==
    /\ \E venue_id \in RouteIds, page \in RoutePages, limit \in RouteLimits,
          upcoming_only \in BOOLEAN :
          LET out == get_venue_events(venue_id, page, limit, upcoming_only)
          IN  route' = Some([endpoint      |-> "get_venue_events",
                             id            |-> venue_id,
                             page          |-> page,
                             limit         |-> limit,
                             upcoming_only |-> upcoming_only,
                             event_queries |-> out.event_queries,
                             response      |-> out.response])
    /\ UNCHANGED <<catalogue, listing, monitoring, tracking, accounts>>

GetArtistEvents ==
    /\ \E artist_id \in RouteIds, page \in RoutePages, limit \in RouteLimits,
          upcoming_only \in BOOLEAN :
          LET out == get_artist_events(artist_id, page, limit, upcoming_only)
          IN  route' = Some([endpoint      |-> "get_artist_events",
                             id            |-> artist_id,
                             page          |-> page,
                             limit         |-> limit,
                             upcoming_only |-> upcoming_only,
                             event_queries |-> out.event_queries,
                             response      |-> out.response])
    /\ UNCHANGED <<catalogue, listing, monitoring, tracking, accounts>>

(* VenueRepository.find_by_city: the lists it may return.  The query has   *)
(* no ORDER BY, so the venues of the city come in any order before the     *)
(* offset and the limit cut the page.                                      *)
find_by_city(city_id, page, limit) ==
    LET matching == {id \in DOMAIN venues : venues[id].city_id = city_id}
    IN  {OffsetLimit(rows, (page - 1) * limit, limit) :
            rows \in Orderings(matching, {})}

(* VenueRepository.count_by_city                                           *)
count_by_city(city_id) ==
    Cardinality({id \in DOMAIN venues : venues[id].city_id = city_id})

(* get_city_venues: the outcomes it may have.  find_by_city returns a      *)
(* list, which has none of the attributes data, total_pages, has_next,     *)
(* has_prev and total the handler reads from its result: building the      *)
(* response raises AttributeError.  The handler does not call              *)
(* count_by_city.                                                          *)
get_city_venues(city_id, page, limit) ==
    IF PathErrors("city_id", city_id, page, limit) # {}
    THEN {[venue_queries |-> <<>>,
           response |-> RequestValidationResponse(
                            PathErrors("city_id", city_id, page, limit))]}
    ELSE IF city_find_by_id(city_id) = None
    THEN {[venue_queries |-> <<>>,
           response |-> app_error_handler(not_found(CityType, city_id))]}
    ELSE {[venue_queries |-> <<[method |-> "find_by_city", result |-> found]>>,
           response |-> general_exception_handler] :
              found \in find_by_city(city_id, page, limit)}

RouteCityLimits == {1, 10, MaxLimit + 1}

GetCityVenues ==
    /\ \E city_id \in RouteIds, page \in RoutePages, limit \in RouteCityLimits :
          \E out \in get_city_venues(city_id, page, limit) :
              route' = Some([endpoint      |-> "get_city_venues",
                             id            |-> city_id,
                             page          |-> page,
                             limit         |-> limit,
                             venue_queries |-> out.venue_queries,
                             response      |-> out.response])
    /\ UNCHANGED <<catalogue, listing, monitoring, tracking, accounts>>

-----------------------------------------------------------------------------
(* EventRepository.find_by_venue and find_events_by_date_range, and a      *)
(* client that fetches the pages of one listing one after the other.       *)

(* order_by(Event.event_datetime.desc())                                   *)
EventAfter(x, y) == events[x].event_datetime > events[y].event_datetime

(* The results find_by_venue may return.  The collections are loaded by a  *)
(* joinedload, which leaves offset and limit counting events.              *)
find_by_venue(venue_id, page, limit) ==
    LET matching == {id \in EventIds : events[id].venue_id = venue_id}
        total == Cardinality(matching)
        before == {xy \in matching \X matching : EventAfter(xy[1], xy[2])}
    IN  {PaginationResult(OffsetLimit(rows, (page - 1) * limit, limit),
                          total, page, limit) :
            rows \in Orderings(matching, before)}

(* The results find_events_by_date_range may return.                       *)
find_events_by_date_range(start_date, end_date, page, limit) ==
    LET matching == {id \in EventIds :
                        /\ events[id].event_datetime >= start_date
                        /\ events[id].event_datetime <= end_date}
        total == Cardinality(matching)
        before == {xy \in matching \X matching : EventBefore(xy[1], xy[2])}
    IN  {PaginationResult(OffsetLimit(rows, (page - 1) * limit, limit),
                          total, page, limit) :
            rows \in Orderings(matching, before)}

(* The page the client asks for next: page 1 of a new listing, or the page *)
(* after the last one it fetched of the listing it is going through, up to *)
(* the last page.                                                          *)
NextPageOf(method, args, limit) ==
    IF /\ listing # None
       /\ listing[1].method = method
       /\ listing[1].args = args
       /\ listing[1].limit = limit
       /\ Len(listing[1].pages) < listing[1].total_pages
    THEN Len(listing[1].pages) + 1
    ELSE 1

Fetched(method, args, limit, result) ==
    IF result.page = 1
    THEN Some([method      |-> method,
               args        |-> args,
               limit       |-> limit,
               total_pages |-> result.total_pages,
               pages       |-> <<result.data>>])
    ELSE Some([listing[1] EXCEPT !.pages = Append(@, result.data)])

FindByVenue ==
    /\ \E venue_id \in VenueIds, limit \in 1..MaxEventLimit :
          LET args == <<venue_id>>
              page == NextPageOf("find_by_venue", args, limit)
          IN  \E result \in find_by_venue(venue_id, page, limit) :
                  listing' = Fetched("find_by_venue", args, limit, result)
    /\ UNCHANGED <<catalogue, route, monitoring, tracking, accounts>>

FindEventsByDateRange ==
    /\ \E start_date \in 0..MaxTime, end_date \in 0..MaxTime,
          limit \in 1..MaxEventLimit :
          LET args == <<start_date, end_date>>
              page == NextPageOf("find_events_by_date_range", args, limit)
          IN  \E result \in find_events_by_date_range(start_date, end_date,
                                                      page, limit) :
                  listing' = Fetched("find_events_by_date_range", args, limit,
                                     result)
    /\ UNCHANGED <<catalogue, route, monitoring, tracking, accounts>>

-----------------------------------------------------------------------------
(* core/monitoring.py: PerformanceMonitor.  Durations are whole numbers of *)
(* milliseconds.  A key is the list of the parts its f-string joins.       *)

(* deque(maxlen=100)                                                       *)
MaxWindow == 100

(* The threads that use the monitor, and the calls of its two record       *)
(* methods that are made.                                                  *)
Threads == {"t1", "t2"}

MaxRecordings == 3

(* PerformanceStats(): the value a key of the defaultdict starts with.     *)
PerformanceStats ==
    [total_requests      |-> 0,
     total_response_time |-> 0,
     response_times      |-> <<>>,
     status_codes        |-> <<>>]

(* d[k] of a defaultdict(int) that is only read.                           *)
CountOf(d, k) == IF k \in DOMAIN d THEN d[k] ELSE 0

(* d[k] = v                                                                *)
SetItem(d, k, v) == [x \in DOMAIN d \cup {k} |-> IF x = k THEN v ELSE d[x]]

(* deque.append on a deque of maxlen MaxWindow: the oldest item goes when  *)
(* the deque is full.                                                      *)
deque_append(d, x) ==
    IF Len(d) >= MaxWindow THEN Append(Tail(d), x) ELSE Append(d, x)

(* f"{method} {path}" and f"DB_{operation}_{table}"                        *)
endpoint_key(method, path) == <<method, " ", path>>

query_key(operation, table) == <<"DB_", operation, "_", table>>

RECURSIVE SumOf(_)
SumOf(s) == IF s = <<>> THEN 0 ELSE Head(s) + SumOf(Tail(s))

(* A quotient of two floats, kept as numerator and denominator.            *)
Quotient(num, den) == [num |-> num, den |-> den]

Zero == Quotient(0, 1)

(* PerformanceStats.average_response_time                                  *)
average_response_time(st) ==
    IF st.total_requests > 0
    THEN Quotient(st.total_response_time, st.total_requests)
    ELSE Zero

(* PerformanceStats.recent_average_response_time                           *)
recent_average_response_time(st) ==
    IF st.response_times = <<>>
    THEN Zero
    ELSE Quotient(SumOf(st.response_times), Len(st.response_times))

(* The local state of a thread that is in no method.                       *)
Idle == [pc |-> "idle", key |-> <<>>, status_code |-> 0, duration |-> 0,
         tmp |-> 0]

(* with cls._lock: the thread waits until the lock is free and takes it.   *)
lock_acquire_no_wait_bug(t) == lock' = Some(t)

lock_acquire(t) == lock = None /\ lock' = Some(t)

(* The number of calls of the record methods made so far.                  *)
RecordCalls == threads.calls

(* record_api_response_time is called: the key is built.                   *)
CallRecordApiResponseTime(t) ==
    /\ threads.at[t].pc = "idle"
    /\ RecordCalls < MaxRecordings
    /\ \E path \in {"/api/health"}, method \in {"GET"},
          status_code \in {200, 500}, response_time \in {1} :
          threads' = [threads EXCEPT
              !.calls = @ + 1,
              !.at[t] = [pc          |-> "acquire",
                         key         |-> endpoint_key(method, path),
                         status_code |-> status_code,
                         duration    |-> response_time,
                         tmp         |-> 0]]
    /\ UNCHANGED <<catalogue, route, listing, stats, lock, tracking, accounts>>

(* record_database_query is called: the key and the status are built.      *)
CallRecordDatabaseQuery(t) ==
    /\ threads.at[t].pc = "idle"
    /\ RecordCalls < MaxRecordings
    /\ \E operation \in {"select"}, table \in {"venues"}, duration \in {2},
          success \in BOOLEAN :
          threads' = [threads EXCEPT
              !.calls = @ + 1,
              !.at[t] = [pc          |-> "acquire",
                         key         |-> query_key(operation, table),
                         status_code |-> IF success THEN 200 ELSE 500,
                         duration    |-> duration,
                         tmp         |-> 0]]
    /\ UNCHANGED <<catalogue, route, listing, stats, lock, tracking, accounts>>

(* with cls._lock:                                                         *)
AcquireLock(t) ==
    /\ threads.at[t].pc = "acquire"
    /\ lock_acquire(t)
    /\ threads' = [threads EXCEPT !.at[t].pc = "lookup"]
    /\ UNCHANGED <<catalogue, route, listing, stats, tracking, accounts>>

(* stats = cls._stats[key]: a key the defaultdict lacks is added.          *)
LookupStats(t) ==
    /\ threads.at[t].pc = "lookup"
    /\ stats' = IF threads.at[t].key \in DOMAIN stats
                   THEN stats
                   ELSE SetItem(stats, threads.at[t].key, PerformanceStats)
    /\ threads' = [threads EXCEPT !.at[t].pc = "read_total"]
    /\ UNCHANGED <<catalogue, route, listing, lock, tracking, accounts>>

(* stats.total_requests += 1: the value is read, then one more is stored.  *)
ReadTotal(t) ==
    /\ threads.at[t].pc = "read_total"
    /\ threads' = [threads EXCEPT
           !.at[t] = [threads.at[t] EXCEPT
                         !.pc = "write_total",
                         !.tmp = stats[threads.at[t].key].total_requests]]
    /\ UNCHANGED <<catalogue, route, listing, stats, lock, tracking, accounts>>

WriteTotal(t) ==
    /\ threads.at[t].pc = "write_total"
    /\ stats' = [stats EXCEPT
           ![threads.at[t].key].total_requests = threads.at[t].tmp + 1]
    /\ threads' = [threads EXCEPT !.at[t].pc = "add_time"]
    /\ UNCHANGED <<catalogue, route, listing, lock, tracking, accounts>>

(* stats.total_response_time += response_time                              *)
AddResponseTime(t) ==
    /\ threads.at[t].pc = "add_time"
    /\ stats' = [stats EXCEPT
           ![threads.at[t].key].total_response_time = @ + threads.at[t].duration]
    /\ threads' = [threads EXCEPT !.at[t].pc = "append"]
    /\ UNCHANGED <<catalogue, route, listing, lock, tracking, accounts>>

(* stats.response_times.append(response_time)                              *)
AppendResponseTime(t) ==
    /\ threads.at[t].pc = "append"
    /\ stats' = [stats EXCEPT
           ![threads.at[t].key].response_times =
               deque_append(@, threads.at[t].duration)]
    /\ threads' = [threads EXCEPT !.at[t].pc = "read_status"]
    /\ UNCHANGED <<catalogue, route, listing, lock, tracking, accounts>>

(* stats.status_codes[status_code] += 1: read, then stored.                *)
ReadStatusCount(t) ==
    /\ threads.at[t].pc = "read_status"
    /\ threads' = [threads EXCEPT
           !.at[t] = [threads.at[t] EXCEPT
                         !.pc = "write_status",
                         !.tmp = CountOf(stats[threads.at[t].key].status_codes,
                                         threads.at[t].status_code)]]
    /\ UNCHANGED <<catalogue, route, listing, stats, lock, tracking, accounts>>

WriteStatusCount(t) ==
    /\ threads.at[t].pc = "write_status"
    /\ stats' = [stats EXCEPT
           ![threads.at[t].key].status_codes =
               SetItem(@, threads.at[t].status_code, threads.at[t].tmp + 1)]
    /\ threads' = [threads EXCEPT !.at[t].pc = "release"]
    /\ UNCHANGED <<catalogue, route, listing, lock, tracking, accounts>>

(* The with block ends: the lock is released and the method returns.  The  *)
(* recording is added to the recordings made.                              *)
ReleaseLock(t) ==
    /\ threads.at[t].pc = "release"
    /\ lock' = None
    /\ threads' = [threads EXCEPT
           !.at[t] = Idle,
           !.recordings = SetItem(@,
               <<threads.at[t].key, threads.at[t].status_code>>,
               CountOf(@, <<threads.at[t].key, threads.at[t].status_code>>) + 1)]
    /\ UNCHANGED <<catalogue, route, listing, stats, tracking, accounts>>

(* get_average_response_time: cls._stats[endpoint_key] is a lookup in the  *)
(* defaultdict, which adds the key it lacks; no lock is taken.             *)
get_average_response_time(st, path, method) ==
    LET key == endpoint_key(method, path)
        after == IF key \in DOMAIN st THEN st
                 ELSE SetItem(st, key, PerformanceStats)
    IN  [stats |-> after, result |-> average_response_time(after[key])]

(* get_stats: for one endpoint (cls._stats.get, which adds nothing), or    *)
(* for every key of cls._stats.                                            *)
StatsOf(st) ==
    [total_requests               |-> st.total_requests,
     average_response_time        |-> average_response_time(st),
     recent_average_response_time |-> recent_average_response_time(st),
     status_codes                 |-> st.status_codes]

get_stats(st, endpoint) ==
    IF endpoint # None /\ endpoint[1] # <<>>
    THEN IF endpoint[1] \in DOMAIN st THEN StatsOf(st[endpoint[1]]) ELSE <<>>
    ELSE [key \in DOMAIN st |-> StatsOf(st[key])]

(* The paths that are asked about.                                         *)
AskedPaths == {"/api/health", "/api/search"}

GetAverageResponseTime(t) ==
    /\ threads.at[t].pc = "idle"
    /\ \E path \in AskedPaths :
          LET out == get_average_response_time(stats, path, "GET")
          IN  /\ stats' = out.stats
              /\ threads' = [threads EXCEPT
                     !.read = Some([method |-> "get_average_response_time",
                                    result |-> out.result])]
    /\ UNCHANGED <<catalogue, route, listing, lock, tracking, accounts>>

GetStats(t) ==
    /\ threads.at[t].pc = "idle"
    /\ lock = None
    /\ \E endpoint \in {None, Some(endpoint_key("GET", "/api/health"))} :
          threads' = [threads EXCEPT
              !.read = Some([method |-> "get_stats",
                             endpoint |-> endpoint,
                             result |-> get_stats(stats, endpoint)])]
    /\ UNCHANGED <<catalogue, route, listing, stats, lock, tracking, accounts>>

(* health_check: HealthMonitor.get_system_health reads get_stats(), then   *)
(* the handler asks for the average response time of /api/health.          *)
HealthCheck(t) ==
    /\ threads.at[t].pc = "idle"
    /\ lock = None
    /\ LET perf_stats == get_stats(stats, None)
           out == get_average_response_time(stats, "/api/health", "GET")
       IN  /\ stats' = out.stats
           /\ threads' = [threads EXCEPT
                  !.read = Some([method |-> "health_check",
                                 result |-> [performance |-> perf_stats,
                                             average_response_time |-> out.result]])]
    /\ UNCHANGED <<catalogue, route, listing, lock, tracking, accounts>>

(* No key, no thread in a method, no recording made.                       *)
InitMonitoring ==
    /\ stats = <<>>
    /\ lock = None
    /\ threads = [at |-> [t \in Threads |-> Idle], calls |-> 0,
                  recordings |-> <<>>, read |-> None]

-----------------------------------------------------------------------------
(* RequestTracker and request_tracking_middleware.  The code of the        *)
(* middleware between two awaits runs without interruption on the event    *)
(* loop.                                                                   *)

(* deque(maxlen=1000)                                                      *)
MaxCompleted == 1000

MaxRequests == 3

(* str(uuid.uuid4()): each request has its own id.                         *)
RequestIds == 1..MaxRequests

(* The whole of a record method, from taking the lock to releasing it.     *)
record(st, key, status_code, duration) ==
    LET old == IF key \in DOMAIN st THEN st[key] ELSE PerformanceStats
    IN  SetItem(st, key,
            [total_requests      |-> old.total_requests + 1,
             total_response_time |-> old.total_response_time + duration,
             response_times      |-> deque_append(old.response_times, duration),
             status_codes        |-> SetItem(old.status_codes, status_code,
                                        CountOf(old.status_codes, status_code) + 1)])

(* RequestTracker.start_request                                            *)
start_request(request_id, path, method) ==
    active_requests' = SetItem(active_requests, request_id,
                               [request_id  |-> request_id,
                                path        |-> path,
                                method      |-> method,
                                end_time    |-> None,
                                status_code |-> None])

(* RequestTracker.end_request                                              *)
end_request(request_id, status_code) ==
    IF request_id \in DOMAIN active_requests
    THEN /\ active_requests' =
               [id \in (DOMAIN active_requests) \ {request_id} |->
                   active_requests[id]]
         /\ completed_requests' =
               LET request == [active_requests[request_id] EXCEPT
                                  !.end_time = Some(clock),
                                  !.status_code = Some(status_code)]
               IN  IF Len(completed_requests) >= MaxCompleted
                   THEN Append(Tail(completed_requests), request)
                   ELSE Append(completed_requests, request)
    ELSE UNCHANGED <<active_requests, completed_requests>>

(* The middleware up to call_next: the request gets its id and is tracked. *)
RequestStarts(r) ==
    /\ inflight[r].pc = "new"
    /\ \E path \in AskedPaths :
          /\ start_request(r, path, "GET")
          /\ inflight' = [inflight EXCEPT ![r] = [pc |-> "call_next",
                                                  path |-> path]]
    /\ UNCHANGED <<catalogue, route, listing, monitoring, completed_requests,
                   accounts>>

(* call_next returns a response: that of the handler, or the one an        *)
(* exception handler of the routed application made of an AppError or of   *)
(* a failed validation.  The middleware records the response time, ends    *)
(* the tracking and returns the response.                                  *)
CallNextReturns(r) ==
    /\ inflight[r].pc = "call_next"
    /\ \E status_code \in {200, 404}, response_time \in {1, 2} :
          /\ stats' = record(stats, endpoint_key("GET", inflight[r].path),
                             status_code, response_time)
          /\ end_request(r, status_code)
          /\ inflight' = [inflight EXCEPT ![r].pc = "returned"]
    /\ UNCHANGED <<catalogue, route, listing, lock, threads, accounts>>

(* call_next raises: the handler raised an exception that is not an        *)
(* AppError.  The handler registered for Exception runs in the server      *)
(* error middleware, outside this one, so the exception passes through     *)
(* the middleware: nothing after call_next runs.                           *)
CallNextRaises(r) ==
    /\ inflight[r].pc = "call_next"
    /\ inflight' = [inflight EXCEPT ![r].pc = "raised"]
    /\ UNCHANGED <<catalogue, route, listing, monitoring, active_requests,
                   completed_requests, accounts>>

InitTracking ==
    /\ active_requests = <<>>
    /\ completed_requests = <<>>
    /\ inflight = [r \in RequestIds |-> [pc |-> "new", path |-> ""]]

-----------------------------------------------------------------------------
(* AuthService.register, each call with its own database session, on the   *)
(* table users, whose column email is unique.                              *)

Sessions == {"s1", "s2", "s3"}

Emails == {"a@x.org", "b@x.org"}

EmailRegistered == "Email already registered"

(* A call that has not been made yet.                                      *)
NoCall ==
    [pc |-> "new", email |-> "", pending |-> FALSE, rolled_back |-> FALSE,
     outcome |-> None]

(* Column(String(255), unique=True): the INSERT of a row whose email a     *)
(* committed row has fails with IntegrityError.                            *)
email_not_unique_bug(email) == FALSE

IntegrityError(email) == \E id \in DOMAIN users : users[id].email = email

(* register is called.                                                     *)
RegisterCalled(s) ==
    /\ sessions[s].pc = "new"
    /\ \E email \in Emails :
          sessions' = [sessions EXCEPT ![s] = [NoCall EXCEPT !.pc = "check",
                                                             !.email = email]]
    /\ UNCHANGED <<catalogue, route, listing, monitoring, tracking, users>>

(* The query for a user of the email: if there is one, ValueError is       *)
(* raised; if not, the password is hashed.                                 *)
CheckExisting(s) ==
    /\ sessions[s].pc = "check"
    /\ sessions' =
          IF \E id \in DOMAIN users : users[id].email = sessions[s].email
          THEN [sessions EXCEPT ![s].pc = "done",
                                ![s].outcome = Some([raised |-> "ValueError",
                                                     message |-> EmailRegistered])]
          ELSE [sessions EXCEPT ![s].pc = "add"]
    /\ UNCHANGED <<catalogue, route, listing, monitoring, tracking, users>>

(* self.db.add(user)                                                       *)
AddUser(s) ==
    /\ sessions[s].pc = "add"
    /\ sessions' = [sessions EXCEPT ![s].pc = "commit", ![s].pending = TRUE]
    /\ UNCHANGED <<catalogue, route, listing, monitoring, tracking, users>>

(* self.db.commit(): the row is inserted with the next id, or the commit   *)
(* raises IntegrityError.                                                  *)
Commit(s) ==
    /\ sessions[s].pc = "commit"
    /\ IF IntegrityError(sessions[s].email)
       THEN /\ sessions' = [sessions EXCEPT ![s].pc = "except"]
            /\ UNCHANGED users
       ELSE /\ users' = Append(users, [email          |-> sessions[s].email,
                                       role           |-> "user",
                                       email_verified |-> FALSE])
            /\ sessions' = [sessions EXCEPT ![s].pc = "created",
                                            ![s].pending = FALSE]
    /\ UNCHANGED <<catalogue, route, listing, monitoring, tracking>>

(* except IntegrityError: self.db.rollback(), then ValueError is raised.   *)
Rollback(s) ==
    /\ sessions[s].pc = "except"
    /\ sessions' = [sessions EXCEPT
           ![s].pc = "done",
           ![s].pending = FALSE,
           ![s].rolled_back = TRUE,
           ![s].outcome = Some([raised |-> "ValueError",
                                message |-> EmailRegistered])]
    /\ UNCHANGED <<catalogue, route, listing, monitoring, tracking, users>>

(* self.db.refresh(user), the access token, and the result returned.       *)
ReturnUser(s) ==
    /\ sessions[s].pc = "created"
    /\ sessions' = [sessions EXCEPT
           ![s].pc = "done",
           ![s].outcome = Some([user |-> CHOOSE id \in DOMAIN users :
                                             users[id].email = sessions[s].email])]
    /\ UNCHANGED <<catalogue, route, listing, monitoring, tracking, users>>

InitAccounts ==
    /\ users = <<>>
    /\ sessions = [s \in Sessions |-> NoCall]

-----------------------------------------------------------------------------
(* Initial values.                                                         *)

InitPagination == pr = NoPagination
InitArtist == artists = <<>> /\ artistCall = None
InitEvents == events = <<>> /\ clock = 0 /\ eventCall = None
InitSearch == http = None /\ httpNearby = None
InitService == svc = None
InitEventArtists == event_artists = {}
InitCities == cities = <<>>
InitNearby == venues = <<>> /\ nearbyCall = None
InitRoutes == route = None
InitListing == listing = None
InitRuntime ==
    /\ InitRoutes
    /\ InitListing
    /\ InitMonitoring
    /\ InitTracking
    /\ InitAccounts

Init ==
    /\ InitPagination
    /\ InitArtist
    /\ InitEvents
    /\ InitSearch
    /\ InitNearby
    /\ InitService
    /\ InitEventArtists
    /\ InitCities
    /\ InitRuntime

NextPagination == NewPaginationResult

SpecPagination == Init /\ [][NextPagination]_vars

NextArtist == CreateArtist \/ SearchArtists

SpecArtist == Init /\ [][NextArtist]_vars

NextEvents == CreateEvent \/ Tick \/ FindUpcomingByVenue

SpecEvents == Init /\ [][NextEvents]_vars

NextSearch == SearchRequest \/ SearchNearbyRequest

SpecSearch == Init /\ [][NextSearch]_vars

NextNearby == CreateVenue \/ GetNearbyVenues

SpecNearby == Init /\ [][NextNearby]_vars

(* The service on a store of some artists and venues, to which events are  *)
(* added.                                                                  *)
InitStored ==
    /\ InitPagination
    /\ artists \in StoredArtists /\ artistCall = None
    /\ InitEvents
    /\ InitSearch
    /\ venues \in StoredVenues /\ nearbyCall = None
    /\ InitService
    /\ InitEventArtists
    /\ InitCities
    /\ InitRuntime

(* Event search on a store of events, artists and their associations.      *)
InitEventSearch ==
    /\ InitPagination
    /\ artists = NamedArtists /\ artistCall = None
    /\ events \in StoredTextEvents /\ clock = 0 /\ eventCall = None
    /\ InitSearch
    /\ InitNearby
    /\ InitService
    /\ event_artists \in SUBSET ((DOMAIN events) \X (DOMAIN artists))
    /\ InitCities
    /\ InitRuntime

NextEventSearch == SearchEvents

SpecEventSearch == InitEventSearch /\ [][NextEventSearch]_vars

(* Upcoming events on a store of cities, venues, artists and events, at    *)
(* some time.                                                              *)
InitUpcoming ==
    /\ InitPagination
    /\ artists = GenreArtists /\ artistCall = None
    /\ events \in StoredDatedEvents /\ clock \in {0, 1} /\ eventCall = None
    /\ InitSearch
    /\ venues = CityVenues /\ nearbyCall = None
    /\ InitService
    /\ event_artists \in SUBSET ((DOMAIN events) \X (DOMAIN artists))
    /\ cities \in [1..2 -> CityRows]
    /\ InitRuntime

NextUpcoming == FindUpcomingEvents

SpecUpcoming == InitUpcoming /\ [][NextUpcoming]_vars

(* The upcoming events of a venue and of an artist, on a store of events,  *)
(* some of them events of the one artist, at some time; an operation is    *)
(* also called for an artist the store does not hold.                      *)
ListedArtists == <<[name |-> <<"a">>, genres |-> {}]>>

InitListings ==
    /\ InitPagination
    /\ artists = ListedArtists /\ artistCall = None
    /\ events \in StoredDatedEvents /\ clock \in {0, 1} /\ eventCall = None
    /\ InitSearch
    /\ InitNearby
    /\ InitService
    /\ event_artists \in SUBSET ((DOMAIN events) \X (DOMAIN artists))
    /\ InitCities
    /\ InitRuntime

NextUpcomingOps ==
    FindUpcomingByVenue \/ FindUpcomingByArtist \/ ArtistFindUpcomingEvents

SpecUpcomingOps == InitListings /\ [][NextUpcomingOps]_vars

(* The routers on a store of cities, of venues in these cities and of      *)
(* artists.                                                                *)
CityVenueRows == [lat : {0}, capacity : {None}, city_id : 1..2]

StoredCityVenues == UNION {[1..n -> CityVenueRows] : n \in 0..MaxVenues}

StoredCities ==
    {<<>>, <<[state_province |-> <<"W", "A">>]>>,
     <<[state_province |-> <<"W", "A">>], [state_province |-> <<"O", "R">>]>>}

InitRouted ==
    /\ InitPagination
    /\ artists \in {<<>>, ListedArtists} /\ artistCall = None
    /\ InitEvents
    /\ InitSearch
    /\ venues \in StoredCityVenues /\ nearbyCall = None
    /\ InitService
    /\ InitEventArtists
    /\ cities \in StoredCities
    /\ \A id \in DOMAIN venues : venues[id].city_id \in DOMAIN cities
    /\ InitRuntime

NextRoutes == GetVenueEvents \/ GetArtistEvents \/ GetCityVenues

SpecRoutes == InitRouted /\ [][NextRoutes]_vars

(* The pages of the listings, on a store of events that does not change.   *)
InitListed ==
    /\ InitPagination
    /\ InitArtist
    /\ events \in StoredDatedEvents /\ clock = 0 /\ eventCall = None
    /\ InitSearch
    /\ InitNearby
    /\ InitService
    /\ InitEventArtists
    /\ InitCities
    /\ InitRuntime

NextListing == FindByVenue \/ FindEventsByDateRange

SpecListing == InitListed /\ [][NextListing]_vars

(* The threads of the monitor, from no statistics or from those of a key   *)
(* that was recorded as often as its window holds samples.                 *)
InitCatalogue ==
    /\ InitPagination
    /\ InitArtist
    /\ InitEvents
    /\ InitSearch
    /\ InitNearby
    /\ InitService
    /\ InitEventArtists
    /\ InitCities

FullKey == endpoint_key("GET", "/api/health")

FullStats ==
    SetItem(<<>>, FullKey,
            [total_requests      |-> MaxWindow,
             total_response_time |-> MaxWindow,
             response_times      |-> [i \in 1..MaxWindow |-> 1],
             status_codes        |-> SetItem(<<>>, 200, MaxWindow)])

InitMonitored ==
    /\ InitCatalogue
    /\ InitRoutes
    /\ InitListing
    /\ \/ InitMonitoring
       \/ /\ stats = FullStats
          /\ lock = None
          /\ threads = [at |-> [t \in Threads |-> Idle], calls |-> 0,
                        recordings |-> SetItem(<<>>, <<FullKey, 200>>, MaxWindow),
                        read |-> None]
    /\ InitTracking
    /\ InitAccounts

NextMonitor ==
    \E t \in Threads :
        \/ CallRecordApiResponseTime(t)
        \/ CallRecordDatabaseQuery(t)
        \/ AcquireLock(t)
        \/ LookupStats(t)
        \/ ReadTotal(t)
        \/ WriteTotal(t)
        \/ AddResponseTime(t)
        \/ AppendResponseTime(t)
        \/ ReadStatusCount(t)
        \/ WriteStatusCount(t)
        \/ ReleaseLock(t)
        \/ GetAverageResponseTime(t)
        \/ GetStats(t)
        \/ HealthCheck(t)

SpecMonitor == InitMonitored /\ [][NextMonitor]_vars

(* The threads when they only record.                                      *)
NextRecording ==
    \E t \in Threads :
        \/ CallRecordApiResponseTime(t)
        \/ CallRecordDatabaseQuery(t)
        \/ AcquireLock(t)
        \/ LookupStats(t)
        \/ ReadTotal(t)
        \/ WriteTotal(t)
        \/ AddResponseTime(t)
        \/ AppendResponseTime(t)
        \/ ReadStatusCount(t)
        \/ WriteStatusCount(t)
        \/ ReleaseLock(t)

SpecRecording == InitMonitored /\ [][NextRecording]_vars

(* The requests that pass through the tracking middleware.                 *)
NextTracking ==
    \E r \in RequestIds :
        RequestStarts(r) \/ CallNextReturns(r) \/ CallNextRaises(r)

SpecTracking == Init /\ [][NextTracking]_vars

(* The calls of register.                                                  *)
NextAccounts ==
    \E s \in Sessions :
        \/ RegisterCalled(s)
        \/ CheckExisting(s)
        \/ AddUser(s)
        \/ Commit(s)
        \/ Rollback(s)
        \/ ReturnUser(s)

SpecAccounts == Init /\ [][NextAccounts]_vars

NextService == CreateEvent \/ ServiceSearch \/ ServiceSearchNearby

SpecService == InitStored /\ [][NextService]_vars

-----------------------------------------------------------------------------
(* C1: for every total >= 0, limit in 1..50 and page >= 1, the             *)
(* PaginationResult built from them has total_pages = ceil(total / limit)  *)
(* (the least number of pages of limit items that hold total items),       *)
(* has_next = (page < total_pages) and has_prev = (page > 1).              *)
PaginationArithmetic ==
    (pr.limit \in 1..MaxLimit /\ pr.total >= 0 /\ pr.page >= 1) =>
        /\ pr.total_pages * pr.limit >= pr.total
        /\ (pr.total_pages - 1) * pr.limit < pr.total
        /\ pr.total_pages >= 0
        /\ pr.has_next = (pr.page * pr.limit < pr.total)
        /\ pr.has_prev = (pr.page >= 2)

(* total = 23, limit = 10, page = 2: three pages, a next and a previous.   *)
PaginationArithmeticWitness ==
    /\ pr.total = 23 /\ pr.limit = 10 /\ pr.page = 2
    /\ pr.total_pages = 3 /\ pr.has_next /\ pr.has_prev

-----------------------------------------------------------------------------
(* The match tier of the ranking rules: 1 the name equals the term, 2 the  *)
(* name starts with it, 3 the name contains it (all three regardless of    *)
(* case), 4 the term is one of the genres, 5 none of these.                *)
MatchTier(a, search_term) ==
    IF Lower(a.name) = Lower(search_term) THEN 1
    ELSE IF StartsWith(Lower(a.name), Lower(search_term)) THEN 2
    ELSE IF Contains(Lower(a.name), Lower(search_term)) THEN 3
    ELSE IF search_term \in a.genres THEN 4
    ELSE 5

ResultTier(i) ==
    MatchTier(artists[artistCall[1].result[i]], artistCall[1].search_term)

(* The result is that of a search of the table as it is now.               *)
ArtistResultCurrent == artistCall # None /\ artistCall[1].rows = Len(artists)

(* C3: of any two returned artists, the one of the lower match tier comes  *)
(* first: exact name before name prefix before name substring before a     *)
(* match by genre only.                                                    *)
ArtistTierOrder ==
    ArtistResultCurrent =>
        \A i, j \in DOMAIN artistCall[1].result :
            (i < j /\ ResultTier(i) \in 1..4 /\ ResultTier(j) \in 1..4)
                => ResultTier(i) <= ResultTier(j)

(* C4: every returned artist has a name that contains the search term      *)
(* (regardless of case) or has the search term among its genres.           *)
ArtistNoTier5 ==
    ArtistResultCurrent =>
        \A i \in DOMAIN artistCall[1].result : ResultTier(i) \in 1..4

(* C5: the same search run again on the unchanged table returns the same   *)
(* artists in the same order.                                              *)
ArtistSearchDeterministic ==
    [][(/\ artistCall # None
        /\ artistCall' # None
        /\ artistCall'[1].search_term = artistCall[1].search_term
        /\ artistCall'[1].limit = artistCall[1].limit
        /\ artistCall[1].rows = Len(artists)
        /\ artistCall'[1].rows = Len(artists))
            => artistCall'[1].result = artistCall[1].result]_vars

-----------------------------------------------------------------------------
(* The last find_upcoming_by_venue call asked for a page after the last.   *)
PageBeyondLast ==
    /\ eventCall # None
    /\ eventCall[1].result.page > eventCall[1].result.total_pages

(* C7 as stated: a page beyond the last page has no data, has_next false,  *)
(* and has_prev true when total_pages > 0 but false when total_pages = 0.  *)
BeyondLastPageAsStated ==
    PageBeyondLast =>
        /\ eventCall[1].result.data = <<>>
        /\ ~eventCall[1].result.has_next
        /\ eventCall[1].result.has_prev = (eventCall[1].result.total_pages > 0)

(* C7, amended: a page beyond the last page has no data, has_next false,   *)
(* and has_prev true for every such page but page 1 (which is beyond the   *)
(* last page only when total_pages = 0), whatever total_pages is.          *)
BeyondLastPage ==
    PageBeyondLast =>
        /\ eventCall[1].result.data = <<>>
        /\ ~eventCall[1].result.has_next
        /\ eventCall[1].result.has_prev = (eventCall[1].result.page # 1)

(* Page 3 of a venue with upcoming events on fewer pages.                  *)
BeyondLastPageWitness ==
    /\ PageBeyondLast
    /\ eventCall[1].result.total_pages > 0
    /\ eventCall[1].result.total > 0
    /\ eventCall[1].result.data = <<>>
    /\ eventCall[1].result.has_prev

-----------------------------------------------------------------------------
(* The last /search request, and what became of it.                        *)
Req == http[1].request
Resp == http[1].response

(* A date parameter that is given and is no ISO date.                      *)
Unparsable(s) ==
    s # <<>> /\ s \notin {<<IsoDateTime>>, <<IsoDateTime, "Z">>,
                          <<IsoDateTime, "+00:00">>}

(* The request is a valid SearchQuery.                                     *)
ValidSearchQuery(req) ==
    /\ req.q # <<>>
    /\ req.page >= 1
    /\ req.limit >= 1 /\ req.limit <= MaxLimit
    /\ ~Unparsable(req.start_date) /\ ~Unparsable(req.end_date)
    /\ (req.capacity_min # None /\ req.capacity_max # None)
           => req.capacity_min[1] <= req.capacity_max[1]

(* A validation-class error that names a parameter at fault.               *)
IsValidationError(resp) == resp.status \in {400, 422} /\ resp.fields # {}

(* C2: a valid SearchQuery is answered without error by a SearchResponse   *)
(* with the query term, the total, the results, the facet counts and the   *)
(* pagination; no match is a success with no results.                      *)
SearchSucceeds ==
    (http # None /\ ValidSearchQuery(Req)) =>
        /\ Resp.status = 200
        /\ http[1].result # None
        /\ http[1].result[1].query = Req.q
        /\ http[1].result[1].total >= Len(http[1].result[1].results)
        /\ DOMAIN http[1].result[1] =
               {"query", "total", "results", "aggregations", "pagination"}

(* limit clamped into 1..50, page coerced to 1 or more                     *)
Clamp(n, lo, hi) == IF n < lo THEN lo ELSE IF n > hi THEN hi ELSE n

CapacityRangeValidated ==
    (/\ http # None
     /\ Req.capacity_min # None /\ Req.capacity_max # None
     /\ Req.capacity_min[1] > Req.capacity_max[1]) =>
        /\ IsValidationError(Resp)
        /\ http[1].params = None
        /\ http[1].result = None

(* C10: a start_date or end_date that is no date makes the search fail     *)
(* with a validation error that names the parameter, not with an internal  *)
(* server error.                                                           *)
BadDateIsValidationError ==
    (/\ http # None
     /\ Req.q # <<>> /\ Req.page >= 1 /\ Req.limit \in 1..MaxLimit
     /\ Unparsable(Req.start_date) \/ Unparsable(Req.end_date)) =>
        /\ IsValidationError(Resp)
        /\ Resp.fields \cap {"start_date", "end_date"} # {}
        /\ Resp.status # 500

-----------------------------------------------------------------------------
(* The distance, in metres, of the i-th venue returned by the last nearby  *)
(* search from the centre of that search.                                  *)
ItemDistanceM(i) ==
    DistanceM(nearbyCall[1].request.lat, venues[nearbyCall[1].items[i].id].lat)

-----------------------------------------------------------------------------
(* The last /search/nearby request, and what became of it.                 *)
NearbyReq == httpNearby[1].request
NearbyResp == httpNearby[1].response

(* The parameters of a /search request, and of a /search/nearby request,   *)
(* that are out of their range.                                            *)
OutOfRange(req) ==
    {f \in {"q", "page", "limit"} :
        \/ f = "q" /\ req.q = <<>>
        \/ f = "page" /\ req.page < 1
        \/ f = "limit" /\ req.limit \notin 1..MaxLimit}

NearbyOutOfRange(req) ==
    {f \in {"lat", "lon", "radius", "limit"} :
        \/ f = "lat" /\ req.lat \notin (-90)..90
        \/ f = "lon" /\ req.lon \notin (-180)..180
        \/ f = "radius" /\ ~(0 < req.radius /\ req.radius <= 100)
        \/ f = "limit" /\ req.limit \notin 1..MaxLimit}

-----------------------------------------------------------------------------
(* C12: a call of search or of search_nearby leaves the entity store       *)
(* (venues, artists, events and their associations) exactly as it was.     *)
ServiceLeavesStore ==
    [][svc' # svc =>
          /\ artists' = artists
          /\ events' = events
          /\ venues' = venues
          /\ event_artists' = event_artists]_vars

(* A search has run on a store that holds artists, venues and events.      *)
ServiceLeavesStoreWitness ==
    /\ svc # None
    /\ svc[1].method = "search"
    /\ Len(artists) = 2 /\ Len(venues) = 1 /\ Len(events) = MaxEvents

-----------------------------------------------------------------------------
(* The artists of the store that ArtistRepository finds for a term: they   *)
(* are part of the merged match sequence of a search for it.               *)
MatchingArtists(q) == {id \in ArtistIds : ArtistMatches(artists[id], q)}

(* C13: a search returns a response whose total is the length of the       *)
(* merged match sequence (so at least the number of matching artists) and  *)
(* whose page is the slice [(page-1)*limit, (page-1)*limit + limit) of it: *)
(* as many items as the sequence has from that offset on, at most limit.   *)
SearchTotalAndSlice ==
    (svc # None /\ svc[1].method = "search") =>
        /\ svc[1].result # None
        /\ svc[1].result[1].total >= Cardinality(MatchingArtists(svc[1].params.q))
        /\ Len(svc[1].result[1].results) <= svc[1].params.limit
        /\ Len(svc[1].result[1].results) =
               Clamp(svc[1].result[1].total
                         - (svc[1].params.page - 1) * svc[1].params.limit,
                     0, svc[1].params.limit)

-----------------------------------------------------------------------------
(* An event matches a term by its title, by its description, by the name   *)
(* of one of its artists: the term occurs in the text, regardless of case. *)
TitleMatch(e, term) == Contains(Lower(events[e].title), Lower(term))

DescriptionMatch(e, term) ==
    /\ events[e].description # None
    /\ Contains(Lower(events[e].description[1]), Lower(term))

ArtistNameMatch(e, term) ==
    \E a \in ArtistIds :
        /\ <<e, a>> \in event_artists
        /\ Contains(Lower(artists[a].name), Lower(term))

(* The last search_events call asked for the whole result: page 1 with a   *)
(* limit that no result exceeds.                                           *)
WholeEventResult ==
    /\ eventCall # None
    /\ eventCall[1].method = "search_events"
    /\ eventCall[1].result.page = 1
    /\ eventCall[1].result.limit = MaxLimit

(* C14: the events a search returns are exactly the events whose title,    *)
(* description or one of whose artists' names contains the term; an event  *)
(* whose title contains it is returned also when it has no artist.         *)
EventMatchIff ==
    WholeEventResult =>
        {eventCall[1].result.data[i] : i \in DOMAIN eventCall[1].result.data}
          = {e \in EventIds :
                \/ TitleMatch(e, eventCall[1].search_term)
                \/ DescriptionMatch(e, eventCall[1].search_term)
                \/ ArtistNameMatch(e, eventCall[1].search_term)}

(* The match tier of an event: 1 by its title, 2 by the name of one of    *)
(* its artists, 3 by its description only, 4 no match.                     *)
EventTier(e, term) ==
    IF TitleMatch(e, term) THEN 1
    ELSE IF ArtistNameMatch(e, term) THEN 2
    ELSE IF DescriptionMatch(e, term) THEN 3
    ELSE 4

EventResultTier(i) ==
    EventTier(eventCall[1].result.data[i], eventCall[1].search_term)

(* C15: of any two returned events, the one of the lower match tier comes  *)
(* first: title before artist name before description only.                *)
EventTierOrder ==
    WholeEventResult =>
        \A i, j \in DOMAIN eventCall[1].result.data :
            (i < j /\ EventResultTier(i) \in 1..3 /\ EventResultTier(j) \in 1..3)
                => EventResultTier(i) <= EventResultTier(j)

-----------------------------------------------------------------------------
(* C18: two searches for the same query on the unchanged store, for        *)
(* different pages or limits, both return facet counts, and the same.      *)
AggregationsIndependentOfPage ==
    [][(/\ svc # None /\ svc' # None
        /\ svc[1].method = "search" /\ svc'[1].method = "search"
        /\ svc'[1].params.q = svc[1].params.q
        /\ svc'[1].params # svc[1].params
        /\ svc[1].rows = Len(events) /\ svc'[1].rows = Len(events))
            => /\ svc[1].result # None
               /\ svc'[1].result # None
               /\ svc'[1].result[1].aggregations
                      = svc[1].result[1].aggregations]_vars

-----------------------------------------------------------------------------
(* Whether event e satisfies the filters of the last find_upcoming_events  *)
(* call: every filter that call was given.                                 *)
SatisfiesFilters(e) ==
    /\ eventCall[1].city_id # None =>
           venues[events[e].venue_id].city_id = eventCall[1].city_id[1]
    /\ eventCall[1].state_province # None =>
           cities[venues[events[e].venue_id].city_id].state_province
               = eventCall[1].state_province[1]
    /\ eventCall[1].genre # None =>
           \E a \in ArtistIds :
               /\ <<e, a>> \in event_artists
               /\ eventCall[1].genre[1] \in artists[a].genres

UpcomingPool ==
    {eventCall[1].result.data[i] : i \in DOMAIN eventCall[1].result.data}

(* C19: the events find_upcoming_events returns for some filters are left  *)
(* as they are by applying the same filters to them again: every returned  *)
(* event satisfies every filter that was given.                            *)
FiltersIdempotent ==
    (eventCall # None /\ eventCall[1].method = "find_upcoming_events") =>
        {e \in UpcomingPool : SatisfiesFilters(e)} = UpcomingPool

-----------------------------------------------------------------------------
(* C20: a PaginationResult built with a limit of 0 or less is built        *)
(* without a division: total_pages is 0, has_next is false for every page  *)
(* >= 1, and has_prev is (page > 1).                                       *)
NonPositiveLimit ==
    (pr.limit <= 0 /\ pr.page >= 1) =>
        /\ pr.total_pages = 0
        /\ ~pr.has_next
        /\ pr.has_prev = (pr.page >= 2)

(* limit = 0 with 23 rows, page 2: no pages, no next, a previous.          *)
NonPositiveLimitWitness ==
    /\ pr.limit = 0 /\ pr.total = 23 /\ pr.page = 2
    /\ pr.total_pages = 0 /\ ~pr.has_next /\ pr.has_prev

-----------------------------------------------------------------------------
(* The last call of an upcoming-events operation, its result, and the      *)
(* events it is to find: those of the venue or artist asked for, at or     *)
(* after the time of the call, and inside the date range when one is given.*)
UpcomingCall ==
    /\ eventCall # None
    /\ eventCall[1].method \in {"find_upcoming_by_venue",
                                 "find_upcoming_by_artist",
                                 "find_upcoming_events"}
    /\ eventCall[1].rows = Len(events)
    /\ eventCall[1].now = clock

UpcomingWanted ==
    {e \in EventIds :
        /\ events[e].event_datetime >= eventCall[1].now
        /\ IF eventCall[1].method = "find_upcoming_by_venue"
           THEN events[e].venue_id = eventCall[1].venue_id
           ELSE <<e, eventCall[1].artist_id>> \in event_artists
        /\ eventCall[1].method = "find_upcoming_events" =>
              /\ eventCall[1].start_date # None =>
                     events[e].event_datetime >= eventCall[1].start_date[1]
              /\ eventCall[1].end_date # None =>
                     events[e].event_datetime <= eventCall[1].end_date[1]}

(* C21: an upcoming-events operation returns only events that are wanted,  *)
(* in ascending order of event_datetime, at most limit of them, and its    *)
(* total is the number of all wanted events.                               *)
UpcomingOperations ==
    UpcomingCall =>
        /\ \A i \in DOMAIN eventCall[1].result.data :
               eventCall[1].result.data[i] \in UpcomingWanted
        /\ \A i, j \in DOMAIN eventCall[1].result.data :
               i < j => events[eventCall[1].result.data[i]].event_datetime
                           <= events[eventCall[1].result.data[j]].event_datetime
        /\ Len(eventCall[1].result.data) <= eventCall[1].result.limit
        /\ eventCall[1].result.total = Cardinality(UpcomingWanted)

(* A venue with a past and an upcoming event: the call returns the         *)
(* upcoming one alone.                                                     *)
UpcomingOperationsWitness ==
    /\ UpcomingCall
    /\ eventCall[1].method = "find_upcoming_by_venue"
    /\ clock = 1
    /\ \E e \in EventIds : /\ events[e].venue_id = eventCall[1].venue_id
                            /\ events[e].event_datetime < clock
    /\ eventCall[1].result.total = 1
    /\ Len(eventCall[1].result.data) = 1

-----------------------------------------------------------------------------
(* The last request for the events of a venue or of an artist that passed  *)
(* the constraints on its parameters and named an id the table does not    *)
(* hold.                                                                   *)
EventsOfMissingEntity ==
    /\ route # None
    /\ route[1].endpoint \in {"get_venue_events", "get_artist_events"}
    /\ route[1].response.status # 422
    /\ route[1].id \notin (IF route[1].endpoint = "get_venue_events"
                               THEN DOMAIN venues ELSE DOMAIN artists)

VenuesOfExistingCity ==
    /\ route # None
    /\ route[1].endpoint = "get_city_venues"
    /\ route[1].response.status # 422
    /\ route[1].id \in DOMAIN cities

(* C23: for an existing city, get_city_venues answers with the page asked  *)
(* for of the venues of the city, at most limit of them, and with total,   *)
(* total_pages, has_next and has_prev of the whole set of the venues of    *)
(* the city.                                                               *)
CityVenuesPage ==
    VenuesOfExistingCity =>
        /\ route[1].response.status = 200
        /\ LET body == route[1].response.body[1]
               total == count_by_city(route[1].id)
           IN  /\ Len(body.data) <= route[1].limit
               /\ \A i \in DOMAIN body.data :
                      venues[body.data[i]].city_id = route[1].id
               /\ Len(body.data) =
                      Len(OffsetLimit([i \in 1..total |-> i],
                                      (route[1].page - 1) * route[1].limit,
                                      route[1].limit))
               /\ body.total = total
               /\ body.pagination.total_pages = Ceil(total, route[1].limit)
               /\ body.pagination.has_next =
                      (route[1].page < Ceil(total, route[1].limit))
               /\ body.pagination.has_prev = (route[1].page > 1)

-----------------------------------------------------------------------------
(* The artists of the table that match the last search term by the ranking *)
(* rules, those of them the search returned, and the rank order of the     *)
(* rules: the lower tier first, then the lower name.                       *)
RankedArtists ==
    {id \in ArtistIds : MatchTier(artists[id], artistCall[1].search_term) \in 1..4}

ReturnedArtists == {artistCall[1].result[i] : i \in DOMAIN artistCall[1].result}

RanksBefore(x, y) ==
    LET tx == MatchTier(artists[x], artistCall[1].search_term)
        ty == MatchTier(artists[y], artistCall[1].search_term)
    IN  \/ tx < ty
        \/ tx = ty /\ StrLess(artists[x].name, artists[y].name)

(* C24: search_by_name_or_genre returns at most limit artists, as many as  *)
(* match when fewer than limit match, and no matching artist it leaves out *)
(* ranks strictly before (lower tier, or same tier and lower name) an      *)
(* artist it returns.                                                      *)
FirstOfRankedOrder ==
    ArtistResultCurrent =>
        /\ Len(artistCall[1].result) <= artistCall[1].limit
        /\ Len(artistCall[1].result) < artistCall[1].limit
              => RankedArtists \subseteq ReturnedArtists
        /\ \A x \in RankedArtists \ ReturnedArtists, y \in ReturnedArtists :
              ~RanksBefore(x, y)

-----------------------------------------------------------------------------
(* The events the listing the client goes through is a listing of, and the *)
(* pages fetched so far, one after the other.                              *)
ListingMatching ==
    IF listing[1].method = "find_by_venue"
    THEN {id \in EventIds : events[id].venue_id = listing[1].args[1]}
    ELSE {id \in EventIds :
             /\ events[id].event_datetime >= listing[1].args[1]
             /\ events[id].event_datetime <= listing[1].args[2]}

RECURSIVE Concat(_)
Concat(pages) ==
    IF pages = <<>> THEN <<>> ELSE Head(pages) \o Concat(Tail(pages))

(* The client has fetched every page from 1 to total_pages.                *)
ListingComplete ==
    /\ listing # None
    /\ Len(listing[1].pages) >= listing[1].total_pages

(* C25: the pages 1..total_pages of a listing, fetched with the same limit *)
(* from an unchanged store, hold every matching event exactly once: none   *)
(* is on two pages and none is missing.                                    *)
PagesPartition ==
    ListingComplete =>
        \A id \in ListingMatching :
            Cardinality({i \in DOMAIN Concat(listing[1].pages) :
                            Concat(listing[1].pages)[i] = id}) = 1

-----------------------------------------------------------------------------
(* The events that the filter of the last search_events call selects: the  *)
(* events of the rows of the join that pass it.                            *)
SearchedEvents ==
    {ea[1] : ea \in {r \in EventArtistJoin :
                        EventRowMatches(r, eventCall[1].search_term)}}

(* C26: the total search_events reports is the number of distinct events   *)
(* that match the term, and no event is twice in the data returned, also   *)
(* for an event with several artists.                                      *)
SearchTotalDistinct ==
    (eventCall # None /\ eventCall[1].method = "search_events") =>
        /\ eventCall[1].result.total = Cardinality(SearchedEvents)
        /\ \A i, j \in DOMAIN eventCall[1].result.data :
               i # j => eventCall[1].result.data[i] # eventCall[1].result.data[j]

-----------------------------------------------------------------------------
(* C27: a request the middleware started to track and whose call_next has  *)
(* ended, with a response or with an exception, is no longer among the     *)
(* active requests and is among the completed ones: no request stays       *)
(* active for ever.                                                        *)
TrackingCompletes ==
    \A r \in RequestIds :
        inflight[r].pc \in {"returned", "raised"} =>
            /\ r \notin DOMAIN active_requests
            /\ \E i \in DOMAIN completed_requests :
                   completed_requests[i].request_id = r

-----------------------------------------------------------------------------
(* The recordings made for a key: the calls of the record methods for it   *)
(* that have returned.                                                     *)
RecordingsOf(key, status_code) ==
    CountOf(threads.recordings, <<key, status_code>>)

RECURSIVE SumOver(_, _)
SumOver(d, keys) ==
    IF keys = {} THEN 0
    ELSE LET k == CHOOSE x \in keys : TRUE
         IN  d[k] + SumOver(d, keys \ {k})

(* No thread is inside a record method.                                    *)
NoRecordingUnderWay ==
    \A t \in Threads : threads.at[t].pc \in {"idle", "acquire"}

(* C28: whatever the interleaving of the record calls, when none is under  *)
(* way every key has total_requests equal to the number of recordings made *)
(* for it and to the sum of its counts by status code, each count is the   *)
(* number of recordings of that status, and at all times the window of a   *)
(* key holds at most 100 samples.                                          *)
NoLostUpdate ==
    /\ \A key \in DOMAIN stats : Len(stats[key].response_times) <= MaxWindow
    /\ NoRecordingUnderWay =>
          \A key \in DOMAIN stats :
              /\ stats[key].total_requests =
                     RecordingsOf(key, 200) + RecordingsOf(key, 500)
              /\ stats[key].total_requests =
                     SumOver(stats[key].status_codes,
                             DOMAIN stats[key].status_codes)
              /\ \A status_code \in {200, 500} :
                     CountOf(stats[key].status_codes, status_code) =
                         RecordingsOf(key, status_code)

(* Two threads have recorded for the key whose window was full, one with   *)
(* each status, after contending for the lock.                             *)
NoLostUpdateWitness ==
    /\ NoRecordingUnderWay
    /\ FullKey \in DOMAIN stats
    /\ stats[FullKey].total_requests = MaxWindow + 2
    /\ Len(stats[FullKey].response_times) = MaxWindow
    /\ RecordingsOf(FullKey, 500) = 1
    /\ RecordingsOf(FullKey, 200) = MaxWindow + 1

-----------------------------------------------------------------------------
(* A step of get_average_response_time, of get_stats or of health_check.   *)
ReadStep ==
    \E t \in Threads :
        GetAverageResponseTime(t) \/ GetStats(t) \/ HealthCheck(t)

(* C29: reading the statistics leaves the state of the monitor as it was:  *)
(* no key is added, and the keys are those that were recorded.             *)
ReadsLeaveStats == [][ReadStep => stats' = stats]_vars

-----------------------------------------------------------------------------
(* The calls of register for an email that found no user of the email, and *)
(* those of them that created a user.  The calls race when there are       *)
(* several of them.                                                        *)
Racers(email) ==
    {s \in Sessions :
        /\ sessions[s].email = email
        /\ \/ sessions[s].pc \in {"add", "commit", "except", "created"}
           \/ sessions[s].rolled_back
           \/ /\ sessions[s].outcome # None
              /\ "user" \in DOMAIN sessions[s].outcome[1]}

Creators(email) ==
    {s \in Racers(email) :
        /\ sessions[s].outcome # None
        /\ "user" \in DOMAIN sessions[s].outcome[1]}

RaceEnded(email) ==
    /\ Cardinality(Racers(email)) >= 2
    /\ \A s \in Racers(email) : sessions[s].pc = "done"

(* C30: no two users of the table have the same email; of the calls of     *)
(* register for one email that raced, exactly one created the user, each   *)
(* other raised ValueError("Email already registered") after the rollback  *)
(* of its session, and the table holds one user of the email.              *)
UniqueEmail ==
    /\ \A i, j \in DOMAIN users : i # j => users[i].email # users[j].email
    /\ \A email \in Emails :
          RaceEnded(email) =>
              /\ Cardinality(Creators(email)) = 1
              /\ \A s \in Racers(email) \ Creators(email) :
                     /\ sessions[s].outcome =
                            Some([raised |-> "ValueError",
                                  message |-> "Email already registered"])
                     /\ sessions[s].rolled_back
                     /\ ~sessions[s].pending
              /\ Cardinality({id \in DOMAIN users :
                                  users[id].email = email}) = 1

UniqueEmailWitness ==
    \E email \in Emails :
        /\ RaceEnded(email)
        /\ \E s \in Racers(email) : sessions[s].rolled_back
=============================================================================
